---- MODULE Spec2Model ----
(***************************************************************************)
(* A model of the distributed-strategy core of the repository:             *)
(*   - DDPStrategy (pytorch_lightning/strategies/ddp.py): rank bookkeeping, *)
(*     the collectives issued by setup, the PID registry, the per-node      *)
(*     sync directory and reconciliate_processes (deadlock detection);      *)
(*   - the broadcast of DDPStrategy, HPUParallelStrategy and XLAStrategy;   *)
(*   - LightningDistributed (pytorch_lightning/distributed/dist.py).        *)
(* Every process of a run is one <<node_rank, local_rank>> pair.            *)
(***************************************************************************)
EXTENDS Integers, Sequences, FiniteSets, TLC

\* ------------------------------------------------------------------ bounds
\* The largest number of processes of a run (num_nodes * num_processes).
MaxWorld == 3

\* The largest number of processes of a run that is followed through teardown, on
\* nodes whose temporary directories may be swept.
MaxRunWorld == 2

\* The largest number of setup_distributed calls on one strategy.
MaxInits == 2

\* Queues: the longest timeout, the length of the observed time, and the number of
\* items a producer puts.
MaxWait == 2
MaxTime == 3
MaxPuts == 1

\* Combined datasets: the number of datasets, their length, and the number of
\* iterations over the combination.
MaxDatasets == 2
MaxSize == 2
MaxIters == 2

\* TensorRunningAccum: the window length, the values appended, and the number of calls.
MaxWindow == 2
MaxValue == 1
MaxAccumCalls == 4

\* The batch-size finder: the memory threshold, the dataset length, init_val,
\* max_trials, and the number of trials a search is followed for.
MaxThreshold == 3
MaxData == 4
MaxInitVal == 4
MaxTrials == 2
MaxRuns == 8

\* The largest number of ranks that call XLAStrategy.reduce together.
MaxReduceWorld == 2

\* run_evaluation: the number of dataloaders and of batches of each.
MaxLoaders == 2
MaxBatches == 1

\* clip_gradients: the number of parameters, the largest gradient and clip value.
MaxParams == 3
MaxGrad == 2
MaxNorm == 2

\* The largest number of processes of a run that is followed through setup only.
MaxSetupWorld == 4

\* ------------------------------------------------------------- DDP: state
VARIABLES
    num_nodes,        \* DDPStrategy._num_nodes
    num_processes,    \* len(parallel_devices)
    status,           \* per process: "alive", "crashed" (it died silently) or "killed"
    pc,               \* per process: where it stands in setup / the run / reconciliate_processes
    env_rank,         \* cluster_environment.global_rank() of each process (None before set)
    env_world,        \* cluster_environment.world_size() of each process (None before set)
    children_flag,    \* _rank_0_will_call_children_scripts
    reconcile_env,    \* os.getenv("PL_RECONCILE_PROCESS", "0") in each process
    ospid,            \* os.getpid() of each process
    pids,             \* _pids
    sync_dir,         \* _sync_dir
    sync_dirs,        \* the local list sync_dirs of _share_information_to_prevent_deadlock
    posted,           \* the collective each process has entered and not yet left
    recv,             \* what the last collective returned to each process
    issued,           \* per process: the sequence of collectives it has issued in setup
    fs,               \* per node: directory path -> set of file names, or NoDir
    created,          \* history: <<process, path>> of every tempfile.mkdtemp()
    kills,            \* history: <<killer, pid>> of every os.kill(pid, SIGKILL)
    trace,            \* the trace argument of reconciliate_processes (NoTrace: never entered)
    kidx,             \* position of the kill loop in _pids
    raised            \* the exception that left reconciliate_processes, or NoError

ddp_vars == <<num_nodes, num_processes, status, pc, env_rank, env_world, children_flag,
              reconcile_env, ospid, pids, sync_dir, sync_dirs, posted, recv, issued, fs,
              created, kills, trace, kidx, raised>>

\* ------------------------------------------- strategy broadcast: state
\* One call of strategy.broadcast(obj, src) by every rank of a run.
VARIABLES
    bc_strategy,      \* "ddp" (DDPStrategy), "hpu" (HPUParallelStrategy) or "xla" (XLAStrategy)
    bc_launched,      \* XLAStrategy._launched
    bc_n,             \* world size
    bc_src,           \* the src argument
    bc_obj,           \* per rank: the obj argument
    bc_pc,            \* per rank: "idle", "waiting" (in the collective) or "done"
    bc_sent,          \* per rank: what it handed to the collective
    bc_out            \* per rank: what broadcast returned

bc_vars == <<bc_strategy, bc_launched, bc_n, bc_src, bc_obj, bc_pc, bc_sent, bc_out>>

\* ---------------------------------------- LightningDistributed: state
VARIABLES
    ld_n,             \* world size
    ld_x,             \* per rank: the argument x of broadcast
    ld_pc,            \* per rank: "idle", "waiting" (in the collective), "received", "done"
    ld_buf,           \* per rank: the tensor handed to / filled by the collective
    ld_src,           \* per rank: the src it named in torch_distrib.broadcast
    ld_out,           \* per rank: what broadcast returned
    rt_s,             \* a string given to _encode
    rt_pc,            \* "start", "encoded", "decoded"
    rt_enc,           \* _encode(rt_s)
    rt_dec            \* _decode(rt_enc)

ld_vars == <<ld_n, ld_x, ld_pc, ld_buf, ld_src, ld_out>>
rt_vars == <<rt_s, rt_pc, rt_enc, rt_dec>>

\* ------------------------------------------- XLAStrategy collectives: state
\* One call of the same collective of XLAStrategy by every rank of a run.
VARIABLES
    xc_launched,      \* XLAStrategy._launched
    xc_n,             \* world size
    xc_op,            \* "barrier", "broadcast", "reduce" or "all_gather"
    xc_reduce_op,     \* the reduce_op argument of reduce: None, a string or a ReduceOp
    xc_arg,           \* per rank: the argument (obj, output, tensor)
    xc_pc,            \* per rank: "idle", "waiting" (in a cross-rank operation), "done", "raised"
    xc_issued,        \* per rank: the cross-rank operations it entered
    xc_sent,          \* per rank: what it handed to the cross-rank operation
    xc_out,           \* per rank: what the call returned
    xc_err            \* per rank: the exception the call raised, or "none"

xc_vars == <<xc_launched, xc_n, xc_op, xc_reduce_op, xc_arg, xc_pc, xc_issued, xc_sent,
             xc_out, xc_err>>

\* ------------------------------------- DDPStrategy on one process: state
\* The calls made on one DDPStrategy object: connect, setup, the step methods,
\* reduce, teardown. The collectives of setup are taken to complete.
VARIABLES
    lc_class,         \* "ddp" (DDPStrategy), "hpu" (HPUParallelStrategy) or "xla" (XLAStrategy)
    lc_fn,            \* trainer.state.fn: "fit", "validate", "test" or "predict"
    lc_trainer,       \* lightning_module.trainer is not None
    lc_layer_sync,    \* self._layer_sync is set
    lc_device,        \* self.root_device.type: "cpu" or "cuda"
    lc_env,           \* PL_RECONCILE_PROCESS: "0" or "1"
    lc_flag0,         \* rank 0's _rank_0_will_call_children_scripts
    lc_strict,        \* LightningDistributedModule refuses what is no LightningModule
    lc_st,            \* the fields of the strategy and of its module
    lc_hist           \* the calls made so far, each with its outcome and the state it left

lc_vars == <<lc_class, lc_fn, lc_trainer, lc_layer_sync, lc_device, lc_env, lc_flag0, lc_strict, lc_st,
             lc_hist>>

\* The last call of a step method or of reduce on the DDPStrategy.
VARIABLES
    sp_last           \* the call's arguments, whether self.model was wrapped, the object
                      \* the call went through, and its result
sp_vars == <<sp_last>>

\* One TorchCheckpointIOPlugin.save_checkpoint(checkpoint, path).
VARIABLES
    ck_input,         \* the checkpoint mapping as the caller built it
    ck_checkpoint,    \* the caller's mapping now (save_checkpoint pops from it)
    ck_file,          \* what is stored at path
    ck_warnings,      \* the number of rank_zero_warn calls
    ck_err,           \* "pending", "none", or the exception save_checkpoint raised
    ck_saves          \* the number of atomic_save calls
ck_vars == <<ck_input, ck_checkpoint, ck_file, ck_warnings, ck_err, ck_saves>>

\* The world ranks of the processes of a DDP run, and rank_zero_only.
VARIABLES
    wr_nodes,         \* the number of nodes the run was launched on
    wr_procs,         \* num_processes: len(parallel_devices)
    wr_num_nodes,     \* per process: DDPStrategy._num_nodes
    wr_env_rank,      \* per process: cluster_environment.global_rank() (Unset before set)
    wr_env_world,     \* per process: cluster_environment.world_size() (Unset before set)
    wr_rzo,           \* per process: rank_zero_only.rank
    wr_log            \* per process: the last call of a rank_zero_only-decorated function
wr_vars == <<wr_nodes, wr_procs, wr_num_nodes, wr_env_rank, wr_env_world, wr_rzo, wr_log>>

\* The sync directories an outside actor has deleted.
VARIABLES
    purged            \* history: <<node, path>> of every deletion by an outside actor
pu_vars == <<purged>>

\* The configuration of one DDPStrategy: find_unused_parameters and the backend.
VARIABLES
    cf_name,          \* the name the strategy was taken from the registry under
    cf_user,          \* find_unused_parameters as the user passed it to the constructor
    cf_auto,          \* lightning_module.automatic_optimization
    cf_flag,          \* self._ddp_kwargs["find_unused_parameters"] ("unset": no such key)
    cf_configured,    \* pre_configure_ddp has run
    cf_warnings,      \* the number of rank_zero_warn calls
    cf_pg_arg,        \* the pg_backend argument of the constructor
    cf_env,           \* the backend the environment declares
    cf_device,        \* root_device.type
    cf_pg_backend,    \* self._pg_backend
    cf_inits          \* the backends handed to init_dist_connection, with the environment then
cf_vars == <<cf_name, cf_user, cf_auto, cf_flag, cf_configured, cf_warnings, cf_pg_arg, cf_env, cf_device, cf_pg_backend, cf_inits>>

\* One get(timeout) on a queue of lightning_app.core.queues.
VARIABLES
    q_class,          \* the class of the queue
    q_default,        \* self.default_timeout, in seconds
    q_timeout,        \* the timeout argument of the get
    q_items,          \* the items in the queue
    q_puts,           \* the number of put calls so far
    q_clock,          \* the time, in seconds
    q_pc,             \* the consumer: "idle", "waiting" (inside get) or "done"
    q_start,          \* the time at which get was called
    q_out             \* how the get ended: "pending", "item", "Empty" (raised) or "None" (returned)
q_vars == <<q_class, q_default, q_timeout, q_items, q_puts, q_clock, q_pc, q_start, q_out>>

\* Iterations over one CombinedStreamingDataset.
VARIABLES
    cd_sizes,         \* per dataset: its number of samples
    cd_weights,       \* per dataset: its weight
    cd_pc,            \* "constructed", "iterating", or "stopped" (StopIteration was raised)
    cd_iters,         \* the number of iter() calls so far
    cd_pos,           \* per dataset: the samples its iterator has handed out
    cd_yielded,       \* _CombinedDatasetIterator._num_samples_yielded
    cd_out,           \* the samples __next__ has returned in this iteration
    cd_chosen         \* the dataset chosen by the last __next__ (0: none yet)
cd_vars == <<cd_sizes, cd_weights, cd_pc, cd_iters, cd_pos, cd_yielded, cd_out, cd_chosen>>

\* Calls on one TensorRunningAccum.
VARIABLES
    ra_window,        \* window_length
    ra_memory,        \* memory, one value per slot
    ra_current_idx,   \* current_idx
    ra_last_idx,      \* last_idx (Unset: None)
    ra_rotated,       \* rotated
    ra_since,         \* history: the values appended since the last reset()
    ra_last_call,     \* history: "init", "append" or "reset"
    ra_calls          \* the number of calls so far
ra_vars == <<ra_window, ra_memory, ra_current_idx, ra_last_idx, ra_rotated, ra_since, ra_last_call, ra_calls>>

\* One call of scale_batch_size (the batch-size finder).
VARIABLES
    bs_mode,          \* mode
    bs_T,             \* the memory threshold: trials above it run out of memory
    bs_N,             \* len(dataset)
    bs_has_len,       \* has_len_all_ranks(dataloader, ...)
    bs_max_trials,    \* max_trials
    bs_init_val,      \* init_val
    bs_trainer,       \* the trainer: its fields that scale_batch_size touches
    bs_trainer0,      \* history: the trainer when scale_batch_size was called
    bs_size,          \* the batch-size attribute of the model
    bs_loader,        \* the batch size the current dataloader was built with
    bs_pc,            \* "called", "power", "binsearch", "searched", "returned" or "raised"
    bs_new,           \* new_size
    bs_low,           \* low
    bs_high,          \* high (0: None)
    bs_count,         \* count
    bs_iter,          \* the passes of the for loop of _run_power_scaling
    bs_trials,        \* history: the number of calls of _try_loop_run
    bs_last,          \* history: the last trial
    bs_params,        \* params, the dumped parameters
    bs_ckpt,          \* the temporary checkpoint files on disk
    bs_restored,      \* the trainer was restored from the temporary checkpoint
    bs_result         \* what scale_batch_size returned (0: None or not yet)
bs_vars == <<bs_mode, bs_T, bs_N, bs_has_len, bs_max_trials, bs_init_val, bs_trainer, bs_trainer0, bs_size, bs_loader, bs_pc, bs_new, bs_low, bs_high, bs_count, bs_iter, bs_trials, bs_last, bs_params, bs_ckpt, bs_restored, bs_result>>

\* One call of run_evaluation.
VARIABLES
    ev_test_mode,     \* test_mode
    ev_loaders,       \* the dataloaders of the mode and their numbers of batches
    ev_fast_dev_run,  \* fast_dev_run
    ev_reload,        \* reload_dataloaders_every_epoch
    ev_loaded,        \* val_dataloaders is not None when run_evaluation is called
    ev_pc,            \* "called", "selected", "started" or "returned"
    ev_max_batches,   \* max_batches
    ev_calls          \* the hooks and callbacks called so far, in order
ev_vars == <<ev_test_mode, ev_loaders, ev_fast_dev_run, ev_reload, ev_loaded, ev_pc, ev_max_batches, ev_calls>>

\* One call of clip_gradients.
VARIABLES
    cg_params,        \* model.parameters(): the gradient of each
    cg_clip_val,      \* gradient_clip_val
    cg_pc,            \* "called", "done" or "raised"
    cg_out,           \* the total norm computed (squared) and whether the gradients were scaled
    cg_err            \* the exception raised, or "none"
cg_vars == <<cg_params, cg_clip_val, cg_pc, cg_out, cg_err>>

\* One call of CombinedStreamingDataset.load_state_dict.
VARIABLES
    ls_n,             \* the number of datasets
    ls_state_dict,    \* state_dict
    ls_datasets,      \* per dataset: the state it holds
    ls_pc,            \* "called", "returned" or "raised"
    ls_err            \* the exception raised, or "none"
ls_vars == <<ls_n, ls_state_dict, ls_datasets, ls_pc, ls_err>>

vars == <<ddp_vars, bc_vars, ld_vars, rt_vars, xc_vars, lc_vars, sp_vars, ck_vars, wr_vars, pu_vars, cf_vars, q_vars, cd_vars, ra_vars, bs_vars, ev_vars, cg_vars, ls_vars>>

None == "None"
\* cluster_environment.global_rank() / world_size() before they are set.
Unset == -1
\* A path at which no directory exists.
NoDir == [exists |-> FALSE, files |-> {}]
\* A process that is in no collective.
NoCall == [kind |-> "none", src |-> Unset, payload |-> None]
\* No exception.
\* No trace.
NoTrace == <<>>
NoError == [type |-> "none", rank |-> Unset, trace |-> NoTrace]

\* The shapes of run the model covers: every num_nodes, num_processes >= 1 whose
\* product is at most a bound.
TopologiesUpTo(n) == {t \in (1..n) \X (1..n) : t[1] * t[2] <= n}

Procs == (0..(num_nodes - 1)) \X (0..(num_processes - 1))
node_rank(p) == p[1]
local_rank(p) == p[2]

\* Names tempfile.mkdtemp() may return; two nodes may or may not get equal names.
TmpNames == {"tmpA", "tmpB"}
\* The trace handed to reconciliate_processes: the traceback of the exception the
\* process caught, a different text in every process.
TraceOf(p) == <<"Traceback", p>>
\* How the nodes number their processes: independently of each other, so the same PID
\* may or may not be in use on two nodes.
PidLayouts == {"same_on_every_node", "distinct"}
OsPidOf(layout, p) ==
    100 + local_rank(p) + (IF layout = "distinct" THEN node_rank(p) * num_processes ELSE 0)
\* How the processes were started: rank 0 in one way, all other ranks in one way
\* (by rank 0's launcher, or by the scheduler).
PerLaunch(S) == {f \in [Procs -> S] : \A p, q \in Procs : (p # <<0, 0>> /\ q # <<0, 0>>) => f[p] = f[q]}

\* ---------------------------------------------------------- DDP: bookkeeping
\* A faulty global rank (node count in place of processes per node): C5 must reject it.
GlobalRankOf_Bug(p) == node_rank(p) * num_nodes + local_rank(p)

\* DDPStrategy.set_world_ranks: the global rank handed to the cluster environment.
GlobalRankOf(p) == node_rank(p) * num_processes + local_rank(p)

\* DDPStrategy.set_world_ranks: the world size handed to the cluster environment.
WorldSizeOf == num_nodes * num_processes

\* DDPStrategy.global_rank / world_size: read back from the cluster environment.
global_rank(p) == env_rank[p]
world_size(p) == env_world[p]

\* A faulty test that ignores the self-spawn flag: C11 must reject it.
ShouldRun_Bug(env, flag) == env = "1"

\* DDPStrategy._should_run_deadlock_detection
ShouldRun(env, flag) == env = "1" \/ flag
_should_run_deadlock_detection(p) == ShouldRun(reconcile_env[p], children_flag[p])

\* ------------------------------------------------------------ collectives
Bcast(src, payload) == [kind |-> "broadcast", src |-> src, payload |-> payload]
Barrier == [kind |-> "barrier", src |-> Unset, payload |-> None]
AllGather(payload) == [kind |-> "all_gather", src |-> Unset, payload |-> payload]

\* What a rank names when it enters a collective (what must agree across ranks).
OpOf(call) == <<call.kind, call.src>>

\* A faulty broadcast in which every rank names itself as the source: C4 must reject it.
DDPBroadcastCall_Bug(p, obj, src) == Bcast(global_rank(p), obj)

\* DDPStrategy.broadcast, before the collective: a rank that is not the source
\* replaces its object by None.
DDPBroadcastCall(p, obj, src) == Bcast(src, IF global_rank(p) = src THEN obj ELSE None)

\* The process that holds a given rank in the process group.
ProcOfRank(r) == CHOOSE p \in Procs : env_rank[p] = r
RanksAreBijective ==
    /\ \A p \in Procs : env_rank[p] \in 0..(Cardinality(Procs) - 1)
    /\ \A p, q \in Procs : env_rank[p] = env_rank[q] => p = q

\* A collective completes when every process has entered it with the same operation.
CanComplete ==
    /\ \A p \in Procs : status[p] = "alive" /\ posted[p] # NoCall
    /\ \A p, q \in Procs : OpOf(posted[p]) = OpOf(posted[q])
    /\ RanksAreBijective

\* torch.distributed.broadcast_object_list(obj, src): every rank gets the object the
\* source rank put in.
BroadcastResult(src) == posted[ProcOfRank(src)].payload

\* all_gather of the parallel strategy: the contributions stacked in rank order,
\* shape (world_size, ...).
AllGatherResult == [i \in 1..Cardinality(Procs) |-> posted[ProcOfRank(i - 1)].payload]

\* What the completed collective returns (the same on every rank).
CollectiveResult ==
    LET any == posted[CHOOSE p \in Procs : TRUE] IN
    CASE any.kind = "broadcast" -> BroadcastResult(any.src)
      [] any.kind = "barrier" -> None
      [] any.kind = "all_gather" -> AllGatherResult

\* ------------------------------------------------------------- DDP: Init
\* The state after construction of the strategy in every process (DDPStrategy.__init__
\* and _configure_launcher): nothing shared yet, ranks not yet set.
DDPInit(topologies) ==
    /\ \E t \in topologies : num_nodes = t[1] /\ num_processes = t[2]
    /\ status = [p \in Procs |-> "alive"]
    /\ pc = [p \in Procs |-> "constructed"]
    /\ env_rank = [p \in Procs |-> Unset]
    /\ env_world = [p \in Procs |-> Unset]
    /\ children_flag \in PerLaunch(BOOLEAN)
    /\ reconcile_env \in PerLaunch({"0", "1"})
    /\ \E layout \in PidLayouts : ospid = [p \in Procs |-> OsPidOf(layout, p)]
    /\ pids = [p \in Procs |-> <<>>]
    /\ sync_dir = [p \in Procs |-> None]
    /\ sync_dirs = [p \in Procs |-> <<>>]
    /\ posted = [p \in Procs |-> NoCall]
    /\ recv = [p \in Procs |-> None]
    /\ issued = [p \in Procs |-> <<>>]
    /\ fs = [n \in 0..(num_nodes - 1) |-> [d \in TmpNames |-> NoDir]]
    /\ created = {}
    /\ kills = {}
    /\ trace = [p \in Procs |-> NoTrace]
    /\ kidx = [p \in Procs |-> 0]
    /\ raised = [p \in Procs |-> NoError]

\* ----------------------------------------------------- DDP: setup actions
\* A process enters a collective: it blocks until the collective completes.
Enter(p, call, waiting) ==
    /\ posted' = [posted EXCEPT ![p] = call]
    /\ issued' = [issued EXCEPT ![p] = Append(@, OpOf(call))]
    /\ pc' = [pc EXCEPT ![p] = waiting]

\* DDPStrategy.setup_environment -> setup_distributed -> set_world_ranks
SetWorldRanks(p) ==
    /\ status[p] = "alive" /\ pc[p] = "constructed"
    /\ env_rank' = [env_rank EXCEPT ![p] = GlobalRankOf(p)]
    /\ env_world' = [env_world EXCEPT ![p] = WorldSizeOf]
    /\ pc' = [pc EXCEPT ![p] = "launched"]
    /\ UNCHANGED <<num_nodes, num_processes, status, children_flag, reconcile_env, ospid,
                   pids, sync_dir, sync_dirs, posted, recv, issued, fs, created, kills,
                   trace, kidx, raised>>

\* DDPStrategy.setup, line 147: broadcast the self-spawn flag from rank 0.
SetupBroadcastFlag(p) ==
    /\ status[p] = "alive" /\ pc[p] = "launched"
    /\ Enter(p, DDPBroadcastCall(p, children_flag[p], 0), "wait_flag")
    /\ UNCHANGED <<num_nodes, num_processes, status, env_rank, env_world, children_flag,
                   reconcile_env, ospid, pids, sync_dir, sync_dirs, recv, fs, created,
                   kills, trace, kidx, raised>>

\* DDPStrategy.setup, lines 147-162: keep the broadcast flag, then decide on detection;
\* _share_information_to_prevent_deadlock starts with _share_pids, which starts with a
\* barrier. Without detection the rest of setup (moving and wrapping the model) is
\* local to the process, and the run begins.
SetupDecide(p) ==
    /\ status[p] = "alive" /\ pc[p] = "got_flag"
    /\ children_flag' = [children_flag EXCEPT ![p] = recv[p]]
    /\ IF ShouldRun(reconcile_env[p], recv[p])
       THEN Enter(p, Barrier, "wait_barrier")
       ELSE /\ pc' = [pc EXCEPT ![p] = "running"]
            /\ UNCHANGED <<posted, issued>>
    /\ UNCHANGED <<num_nodes, num_processes, status, env_rank, env_world, reconcile_env,
                   ospid, pids, sync_dir, sync_dirs, recv, fs, created, kills, trace, kidx,
                   raised>>

\* DDPStrategy._share_pids, line 390: all_gather of os.getpid().
SharePidsGather(p) ==
    /\ status[p] = "alive" /\ pc[p] = "got_barrier"
    /\ Enter(p, AllGather(ospid[p]), "wait_gather")
    /\ UNCHANGED <<num_nodes, num_processes, status, env_rank, env_world, children_flag,
                   reconcile_env, ospid, pids, sync_dir, sync_dirs, recv, fs, created,
                   kills, trace, kidx, raised>>

\* A faulty registry that keeps only the first PID gathered: C10 must reject it.
PidsFromGather_Bug(gathered) == <<gathered[1]>>

\* DDPStrategy._share_pids, lines 391-392: the list kept in _pids.
PidsFromGather(gathered) == gathered

\* _share_information_to_prevent_deadlock, line 375: who creates the sync directory.
CreatesSyncDir(p) == local_rank(p) = 0

\* _share_information_to_prevent_deadlock, line 383: the source of the i-th broadcast
\* (i = 0 .. num_nodes-1) of a sync-directory path.
SyncDirSource(p, i) == i * (world_size(p) \div num_nodes)

\* _share_pids, lines 391-392, then _share_information_to_prevent_deadlock, lines 375-382:
\* local rank 0 creates the node's directory; the first path broadcast is entered.
ShareInfoStart(p) ==
    /\ status[p] = "alive" /\ pc[p] = "got_gather"
    /\ pids' = [pids EXCEPT ![p] = PidsFromGather(recv[p])]
    /\ sync_dirs' = [sync_dirs EXCEPT ![p] = <<>>]
    /\ \E d \in TmpNames :
          /\ IF CreatesSyncDir(p)
             THEN /\ ~fs[node_rank(p)][d].exists
                  /\ fs' = [fs EXCEPT ![node_rank(p)][d] = [exists |-> TRUE, files |-> {}]]
                  /\ created' = created \cup {<<p, d>>}
                  /\ sync_dir' = [sync_dir EXCEPT ![p] = d]
             ELSE /\ d = CHOOSE x \in TmpNames : TRUE
                  /\ UNCHANGED <<fs, created, sync_dir>>
          /\ Enter(p, DDPBroadcastCall(p, sync_dir'[p], SyncDirSource(p, 0)), "wait_dir")
    /\ UNCHANGED <<num_nodes, num_processes, status, env_rank, env_world, children_flag,
                   reconcile_env, ospid, recv, kills, trace, kidx, raised>>

\* A faulty choice that keeps the first node's path on every node: C9 must reject it.
KeptSyncDir_Bug(p, dirs) == dirs[1]

\* _share_information_to_prevent_deadlock, line 385: the path a rank keeps.
KeptSyncDir(p, dirs) == dirs[node_rank(p) + 1]

\* _share_information_to_prevent_deadlock, lines 381-385: append the path received,
\* then either enter the next broadcast or keep this node's path; the rest of setup
\* (lines 151-162) is local to the process, and the run begins.
ShareInfoNext(p) ==
    /\ status[p] = "alive" /\ pc[p] = "got_dir"
    /\ LET dirs == Append(sync_dirs[p], recv[p]) IN
       /\ sync_dirs' = [sync_dirs EXCEPT ![p] = dirs]
       /\ IF Len(dirs) < num_nodes
          THEN /\ Enter(p, DDPBroadcastCall(p, sync_dir[p], SyncDirSource(p, Len(dirs))),
                        "wait_dir")
               /\ UNCHANGED sync_dir
          ELSE /\ sync_dir' = [sync_dir EXCEPT ![p] = KeptSyncDir(p, dirs)]
               /\ pc' = [pc EXCEPT ![p] = "running"]
               /\ UNCHANGED <<posted, issued>>
    /\ UNCHANGED <<num_nodes, num_processes, status, env_rank, env_world, children_flag,
                   reconcile_env, ospid, pids, recv, fs, created, kills, trace, kidx,
                   raised>>

\* Where a process resumes when the collective it waits in completes.
AfterWait(w) ==
    CASE w = "wait_flag" -> "got_flag"
      [] w = "wait_barrier" -> "got_barrier"
      [] w = "wait_gather" -> "got_gather"
      [] w = "wait_dir" -> "got_dir"

\* The collective all processes have entered completes: every process gets its result.
CollectiveComplete ==
    /\ CanComplete
    /\ recv' = [p \in Procs |-> CollectiveResult]
    /\ posted' = [p \in Procs |-> NoCall]
    /\ pc' = [p \in Procs |-> AfterWait(pc[p])]
    /\ UNCHANGED <<num_nodes, num_processes, status, env_rank, env_world, children_flag,
                   reconcile_env, ospid, pids, sync_dir, sync_dirs, issued, fs, created,
                   kills, trace, kidx, raised>>

\* --------------------------------------------- DDP: the run and its failures
\* Variables no step of the run or of reconciliate_processes changes.
SetupState == <<num_nodes, num_processes, env_rank, env_world, children_flag, reconcile_env,
                ospid, pids, sync_dir, sync_dirs, posted, recv, issued, created>>

\* A running process dies silently (it neither handles an exception nor tells anyone).
Crash(p) ==
    /\ status[p] = "alive" /\ pc[p] = "running"
    /\ status' = [status EXCEPT ![p] = "crashed"]
    /\ pc' = [pc EXCEPT ![p] = "dead"]
    /\ UNCHANGED <<SetupState, fs, kills, trace, kidx, raised>>

\* A faulty step that never creates the directory: C24 must reject it.
Mkdir_Bug(dir) == dir
\* Path(sync_dir).mkdir(parents=True, exist_ok=True)
Mkdir(dir) == IF dir.exists THEN dir ELSE [exists |-> TRUE, files |-> {}]

\* The name of the sentinel file a rank writes: f"{self.global_rank}.pl"
SentinelOf(p) == global_rank(p)

\* torch.save(True, os.path.join(sync_dir, name)): one more file in the directory.
SaveSentinel(dir, name) == [dir EXCEPT !.files = @ \cup {name}]

\* reconciliate_processes, lines 395-405: the three early returns.
ReturnsEarly(p) ==
    world_size(p) < 2 \/ ~_should_run_deadlock_detection(p) \/ sync_dir[p] = None

\* reconciliate_processes, lines 395-416: the early returns; otherwise the directory
\* is created if it is missing, the sentinel is written, and the process sleeps.
ReconcileEnter(p) ==
    /\ status[p] = "alive" /\ pc[p] = "running"
    /\ trace' = [trace EXCEPT ![p] = TraceOf(p)]
    /\ IF ReturnsEarly(p)
       THEN /\ pc' = [pc EXCEPT ![p] = "returned"]
            /\ UNCHANGED fs
       ELSE /\ fs' = [fs EXCEPT ![node_rank(p)][sync_dir[p]] =
                                    SaveSentinel(Mkdir(@), SentinelOf(p))]
            /\ pc' = [pc EXCEPT ![p] = "sleeping"]
    /\ UNCHANGED <<SetupState, status, kills, kidx, raised>>

\* reconciliate_processes, line 420: the test made after the sleep.
AllSentinelsPresent(p, files) == Cardinality(files) = world_size(p) \div num_nodes

\* reconciliate_processes, lines 416-421: after time.sleep(3), count the directory's entries.
ReconcileCheck(p) ==
    /\ status[p] = "alive" /\ pc[p] = "sleeping"
    /\ LET dir == fs[node_rank(p)][sync_dir[p]] IN
       IF ~dir.exists
       THEN /\ raised' = [raised EXCEPT ![p] = [type |-> "FileNotFoundError",
                                                 rank |-> global_rank(p), trace |-> NoTrace]]
            /\ pc' = [pc EXCEPT ![p] = "raised"]
            /\ UNCHANGED kidx
       ELSE /\ IF AllSentinelsPresent(p, dir.files)
               THEN pc' = [pc EXCEPT ![p] = "returned"] /\ UNCHANGED kidx
               ELSE pc' = [pc EXCEPT ![p] = "killing"] /\ kidx' = [kidx EXCEPT ![p] = 1]
            /\ UNCHANGED raised
    /\ UNCHANGED <<SetupState, status, fs, kills, trace>>

\* The process of the caller's node that os.kill(pid, ...) reaches, if any.
KillTargets(p, pid) == {q \in Procs : node_rank(q) = node_rank(p) /\ ospid[q] = pid}

\* reconciliate_processes, line 424: the PIDs the loop passes to os.kill.
ShouldKill(p, pid) == pid # ospid[p]

\* A process os.kill certainly finds: it is running (it has neither died nor left
\* reconciliate_processes, after which it exits).
Running(q) == status[q] = "alive" /\ pc[q] \notin {"returned", "raised"}

\* reconciliate_processes, lines 423-425: one iteration of the kill loop.
\* os.kill(pid, SIGKILL) ends a running process. For a process that has exited it
\* does nothing while the process is not yet collected by its parent and raises
\* ProcessLookupError once it is; a PID that names none of the run's processes on
\* this node names an unrelated process or none (ProcessLookupError).
ReconcileKill(p) ==
    /\ status[p] = "alive" /\ pc[p] = "killing" /\ kidx[p] <= Len(pids[p])
    /\ LET pid == pids[p][kidx[p]]
           hit == {q \in KillTargets(p, pid) : Running(q)}
       IN
       IF ~ShouldKill(p, pid)
       THEN /\ kidx' = [kidx EXCEPT ![p] = @ + 1]
            /\ UNCHANGED <<status, pc, kills, raised, trace>>
       ELSE /\ kills' = kills \cup {<<p, pid>>}
            /\ \/ /\ status' = [q \in Procs |-> IF q \in hit THEN "killed" ELSE status[q]]
                  /\ pc' = [q \in Procs |-> IF q \in hit THEN "dead" ELSE pc[q]]
                  /\ kidx' = [q \in Procs |-> IF q \in hit THEN 0
                                              ELSE IF q = p THEN kidx[q] + 1 ELSE kidx[q]]
                  /\ UNCHANGED <<raised, trace>>
               \/ /\ hit = {}
                  /\ raised' = [raised EXCEPT ![p] = [type |-> "ProcessLookupError",
                                                       rank |-> global_rank(p), trace |-> NoTrace]]
                  /\ pc' = [pc EXCEPT ![p] = "raised"]
                  /\ UNCHANGED <<status, kidx, trace>>
    /\ UNCHANGED <<SetupState, fs>>

\* reconciliate_processes, line 427: the exception that reports the deadlock.
DeadlockDetected(p) ==
    [type |-> "DeadlockDetectedException", rank |-> global_rank(p), trace |-> trace[p]]

\* reconciliate_processes, lines 426-427: shutil.rmtree(sync_dir), then raise.
ReconcileRaise(p) ==
    /\ status[p] = "alive" /\ pc[p] = "killing" /\ kidx[p] > Len(pids[p])
    /\ LET dir == fs[node_rank(p)][sync_dir[p]] IN
       IF dir.exists
       THEN /\ fs' = [fs EXCEPT ![node_rank(p)][sync_dir[p]] = NoDir]
            /\ raised' = [raised EXCEPT ![p] = DeadlockDetected(p)]
       ELSE /\ raised' = [raised EXCEPT ![p] = [type |-> "FileNotFoundError",
                                                 rank |-> global_rank(p), trace |-> NoTrace]]
            /\ UNCHANGED fs
    /\ pc' = [pc EXCEPT ![p] = "raised"]
    /\ UNCHANGED <<SetupState, status, kills, trace, kidx>>

\* DDPStrategy.teardown (lines 429-449) in a process whose run has ended, with or
\* without a handled exception: it touches neither _sync_dir nor the file system.
Teardown(p) ==
    /\ status[p] = "alive" /\ pc[p] \in {"running", "returned"}
    /\ pc' = [pc EXCEPT ![p] = IF pc[p] = "running" THEN "torn_down" ELSE "torn_down_after_error"]
    /\ UNCHANGED <<SetupState, status, fs, kills, trace, kidx, raised>>

\* The processes that are using the sync directory d of node n: they are inside
\* reconciliate_processes, past the mkdir of line 410.
UsersOf(n, d) ==
    {p \in Procs : node_rank(p) = n /\ sync_dir[p] = d /\ pc[p] \in {"sleeping", "killing"}}

\* An actor outside the run (a sweep of the temporary directory) deletes a sync
\* directory of a node, at a time when no process is using it.
Purge(n, d) ==
    /\ fs[n][d].exists /\ UsersOf(n, d) = {}
    /\ fs' = [fs EXCEPT ![n][d] = NoDir]
    /\ purged' = purged \cup {<<n, d>>}
    /\ UNCHANGED <<SetupState, status, pc, kills, trace, kidx, raised>>

\* ------------------------------------------------------- DDP: properties
Rank0 == <<0, 0>>

\* C31 (as claimed): in a run with more than one node, every PID a rank passes to
\* os.kill is the PID of a rank of its own node.
C31_KillsOnOwnNodeOnly ==
    num_nodes > 1 =>
        \A k \in kills : \E q \in Procs : node_rank(q) = node_rank(k[1]) /\ ospid[q] = k[2]

SetupDone(p) ==
    pc[p] \in {"running", "sleeping", "killing", "returned", "raised", "torn_down",
               "torn_down_after_error"}
IsPrefix(a, b) == Len(a) <= Len(b) /\ \A i \in 1..Len(a) : a[i] = b[i]
SyncDirOf(p) == fs[node_rank(p)][sync_dir[p]]
KilledBy(p) == {k[2] : k \in {x \in kills : x[1] = p}}
RegisteredPids(p) == {pids[p][i] : i \in 1..Len(pids[p])}
Entered(p) == trace[p] # NoTrace

\* What reconciliate_processes is specified to do once it has detected a missing
\* sentinel: every other registered PID killed, the directory deleted, and
\* DeadlockDetectedException raised with the trace it was given.
KilledAllAndRaised(p) ==
    /\ raised[p] = [type |-> "DeadlockDetectedException", rank |-> global_rank(p),
                    trace |-> TraceOf(p)]
    /\ KilledBy(p) = RegisteredPids(p) \ {ospid[p]}
    /\ ~SyncDirOf(p).exists

\* C1 (as claimed): a rank that ran reconciliate_processes past the early returns has
\* written its sentinel and then either returned, having killed nothing and deleted
\* nothing (the directory, unless another rank deleted it since, holds the sentinels
\* of all ranks of the node), or killed every registered PID but its own, deleted
\* the sync directory and raised DeadlockDetectedException carrying the given trace.
C1_ReconcileOutcome ==
    \A p \in Procs : (Entered(p) /\ ~ReturnsEarly(p)) =>
        /\ pc[p] = "returned" =>
              /\ raised[p] = NoError /\ KilledBy(p) = {}
              /\ SyncDirOf(p).exists =>
                    /\ SentinelOf(p) \in SyncDirOf(p).files
                    /\ Cardinality(SyncDirOf(p).files) = num_processes
        /\ pc[p] = "raised" => KilledAllAndRaised(p)

\* The scenario of C2: three ranks on one node, rank 1 died silently, ranks 0 and 2
\* both entered reconciliate_processes past the early returns.
C2_Others == {<<0, 0>>, <<0, 2>>}
C2_Scenario ==
    /\ num_nodes = 1 /\ num_processes = 3
    /\ status[<<0, 1>>] = "crashed"
    /\ \A p \in C2_Others : status[p] # "crashed" /\ Entered(p) /\ ~ReturnsEarly(p)
C2_Finished == \A p \in C2_Others : pc[p] \in {"returned", "raised", "dead"}
IsDeadlockDetected(p) == raised[p].type = "DeadlockDetectedException"

\* C2 (as claimed): in the scenario, once ranks 0 and 2 are done, both have raised
\* DeadlockDetectedException and the sync directory no longer exists. (Stated for the
\* runs in which no os.kill raised ProcessLookupError, so that what refutes it is the
\* interleaving of ranks 0 and 2 alone: the first to reach the kill step kills the
\* other.)
C2_BothRaise ==
    (/\ C2_Scenario /\ C2_Finished
     /\ \A p \in Procs : raised[p].type # "ProcessLookupError")
    => /\ \A p \in C2_Others : IsDeadlockDetected(p)
       /\ ~fs[0][sync_dir[<<0, 0>>]].exists

\* C3 (as claimed): on one node, where every registered PID is a sibling's, a rank
\* that leaves the kill step has killed the remaining siblings, deleted the sync
\* directory and raised DeadlockDetectedException, also when a sibling had already
\* exited: no other exception escapes.
C3_KillOfExitedIsNoOp ==
    num_nodes = 1 =>
        \A p \in Procs : (Entered(p) /\ ~ReturnsEarly(p) /\ pc[p] = "raised") =>
            /\ IsDeadlockDetected(p)
            /\ KilledBy(p) = RegisteredPids(p) \ {ospid[p]}
            /\ ~SyncDirOf(p).exists

\* The collectives DDPStrategy.setup issues, in order: the broadcast of the self-spawn
\* flag from rank 0, then, with detection enabled, a barrier, an all_gather and one
\* broadcast per node from that node's local rank 0.
ExpectedCollectives ==
    <<<<"broadcast", 0>>>> \o
    (IF ShouldRun(reconcile_env[Rank0], children_flag[Rank0])
     THEN <<<<"barrier", Unset>>, <<"all_gather", Unset>>>> \o
          [i \in 1..num_nodes |-> <<"broadcast", (i - 1) * num_processes>>]
     ELSE <<>>)
SameEnv == \A p, q \in Procs : reconcile_env[p] = reconcile_env[q]

\* C4: when all ranks see the same PL_RECONCILE_PROCESS, every rank issues the same
\* collectives in the same order in setup (each rank's sequence is a prefix of the
\* expected one, and the whole of it once its setup is done), and a collective that
\* every rank has entered can complete.
C4_SameCollectiveOrder ==
    SameEnv =>
        /\ \A p \in Procs : IsPrefix(issued[p], ExpectedCollectives)
        /\ \A p \in Procs : SetupDone(p) => issued[p] = ExpectedCollectives
        /\ (\A p \in Procs : status[p] = "alive" /\ posted[p] # NoCall) => CanComplete

C4_Witness ==
    /\ SameEnv /\ num_nodes >= 2 /\ num_processes >= 2
    /\ \A p \in Procs : pc[p] = "running" /\ Len(issued[p]) = 3 + num_nodes

\* C5: after set_world_ranks the environment's global rank is
\* node_rank * num_processes + local_rank and its world size is
\* num_nodes * num_processes; the global ranks of distinct processes differ, and once
\* every process has set its rank they cover 0 .. world_size - 1.
C5_WorldRanks ==
    /\ \A p \in Procs : pc[p] # "constructed" =>
          /\ env_rank[p] = p[1] * num_processes + p[2]
          /\ env_world[p] = Cardinality(Procs)
    /\ \A p, q \in Procs :
          (pc[p] # "constructed" /\ pc[q] # "constructed" /\ p # q) => env_rank[p] # env_rank[q]
    /\ (\A p \in Procs : pc[p] # "constructed") =>
          {env_rank[p] : p \in Procs} = 0..(num_nodes * num_processes - 1)

C5_Witness ==
    /\ num_nodes >= 2 /\ num_processes >= 2
    /\ \A p \in Procs : pc[p] = "launched"

\* Detection ran in the setup of process p.
DetectionSetUp(p) == SetupDone(p) /\ pids[p] # <<>>

\* C9: after _share_information_to_prevent_deadlock every rank's _sync_dir is the
\* directory created by local rank 0 of its own node; only local-rank-0 processes
\* create a directory, each of them one, so ranks of one node hold the same path and
\* there is exactly one directory per node.
C9_SyncDirPerNode ==
    /\ \A c \in created : local_rank(c[1]) = 0
    /\ \A c, d \in created : c[1] = d[1] => c = d
    /\ \A p \in Procs : DetectionSetUp(p) =>
          /\ <<<<node_rank(p), 0>>, sync_dir[p]>> \in created
          /\ \A n \in 0..(num_nodes - 1) : \E c \in created : node_rank(c[1]) = n
          /\ \A q \in Procs :
                (DetectionSetUp(q) /\ node_rank(q) = node_rank(p)) => sync_dir[q] = sync_dir[p]

C9_Witness ==
    /\ num_nodes >= 2 /\ num_processes >= 2
    /\ \A p \in Procs : DetectionSetUp(p)
    /\ \E p, q \in Procs : sync_dir[p] # sync_dir[q]

\* C10: _pids is unset until _share_pids has run; from then on it is, on every rank,
\* the list of length world_size whose i-th entry is the PID of global rank i, and
\* nothing changes it afterwards.
C10_PidRegistry ==
    \A p \in Procs :
        /\ pc[p] \in {"constructed", "launched", "wait_flag", "got_flag", "wait_barrier",
                      "got_barrier", "wait_gather", "got_gather"} => pids[p] = <<>>
        /\ pc[p] \in {"wait_dir", "got_dir"} => pids[p] # <<>>
        /\ (SetupDone(p) /\ _should_run_deadlock_detection(p)) => pids[p] # <<>>
        /\ pids[p] # <<>> =>
              /\ Len(pids[p]) = world_size(p)
              /\ \A q \in Procs : pids[p][global_rank(q) + 1] = ospid[q]

C10_Witness ==
    /\ num_nodes >= 2 /\ Cardinality(Procs) >= 3
    /\ \A p \in Procs : pc[p] = "running" /\ pids[p] # <<>>

\* C11: once setup is done on a rank, the rank holds rank 0's self-spawn flag, and
\* detection was set up on it (its PID registry is filled) exactly when its
\* PL_RECONCILE_PROCESS is "1" or rank 0 spawns the children itself; so when the
\* variable is unset on all ranks, the ranks agree on whether detection runs.
C11_DetectionFlag ==
    /\ \A p \in Procs : SetupDone(p) =>
          /\ children_flag[p] = children_flag[Rank0]
          /\ DetectionSetUp(p) <=> (reconcile_env[p] = "1" \/ children_flag[Rank0])
          /\ _should_run_deadlock_detection(p) <=> DetectionSetUp(p)
    /\ (\A p \in Procs : reconcile_env[p] = "0") =>
          \A p, q \in Procs : (SetupDone(p) /\ SetupDone(q)) =>
              (DetectionSetUp(p) <=> DetectionSetUp(q))

C11_Witness ==
    /\ Cardinality(Procs) >= 3
    /\ \A p \in Procs : reconcile_env[p] = "0" /\ SetupDone(p) /\ DetectionSetUp(p)

\* C23 (as claimed): the sync directory does not outlive the run. Once every process
\* of a run that set up detection has left it through teardown with no deadlock
\* detected, the directory no longer exists; and a rank that raised
\* DeadlockDetectedException has deleted it (it exists again only if another rank
\* of the node entered reconciliate_processes and recreated it).
C23_SyncDirRemoved ==
    /\ (\A p \in Procs : pc[p] = "torn_down" /\ sync_dir[p] # None)
          => \A p \in Procs : ~SyncDirOf(p).exists
    /\ \A p \in Procs : raised[p].type = "DeadlockDetectedException" =>
          \/ ~SyncDirOf(p).exists
          \/ \E q \in Procs \ {p} : node_rank(q) = node_rank(p) /\ Entered(q)

Tensor(shape, data) == [kind |-> "tensor", shape |-> shape, data |-> data]
Object(id) == [kind |-> "object", shape |-> <<>>, data |-> <<id>>]
PyNone == Object(0)
PyTrue == Object(1)
PyFalse == Object(2)
\* What a rank holds when the collective failed (mismatched shapes, unreadable bytes).
BcFailed == [kind |-> "failed", shape |-> <<>>, data |-> <<>>]
\* Not yet handed in / not yet returned.
BcNothing == [kind |-> "nothing", shape |-> <<>>, data |-> <<>>]

BcValues == {Tensor(<<>>, <<7>>), Tensor(<<2>>, <<3, 4>>), PyNone, PyTrue, PyFalse}

BcRanks == 0..(bc_n - 1)

\* torch.save(obj, buffer): the serialized bytes of an object. Different objects give
\* different bytes, of a length that depends on the object.
Pickle(obj) ==
    CASE obj = PyNone -> <<78, 46>>
      [] obj = PyTrue -> <<128, 136, 46>>
      [] obj = PyFalse -> <<128, 137, 46>>

\* torch.load(buffer): the object whose serialization the bytes are, if any.
Unpickle(bytes) ==
    LET ok == {o \in {PyNone, PyTrue, PyFalse} : Pickle(o) = bytes} IN
    IF ok = {} THEN BcFailed ELSE CHOOSE o \in ok : TRUE

\* DDPStrategy.broadcast, lines 292-294: what a rank puts in the object list.
DDPBroadcastPrepare(rank, obj, src) == IF rank # src THEN PyNone ELSE obj

\* HPUParallelStrategy.broadcast, lines 121-123: what a rank puts in the object list.
HPUBroadcastPrepare(rank, obj, src) == IF rank # src THEN PyNone ELSE obj

\* torch.distributed.broadcast_object_list(obj, src): the list of every rank is
\* overwritten by the source's.
BroadcastObjectList(sent, src) == sent[src]

\* pytorch_lightning.overrides.torch_distributed.broadcast_object_list (HPU)
HPUBroadcastObjectList(sent, src) == sent[src]

\* torch.tensor(bytearray(...), dtype=torch.float): one float per byte.
FloatTensorOfBytes(bytes) == Tensor(<<Len(bytes)>>, bytes)

\* tensor.cpu().byte().numpy(): floats back to bytes.
BytesOfFloatTensor(t) == [i \in 1..Len(t.data) |-> t.data[i] % 256]

\* XLAStrategy.broadcast, lines 172-186: the tensor a rank hands to the collective.
\* A 0-d tensor is unsqueezed; an object that is no tensor is serialized, by every
\* rank, into a float tensor.
XLABroadcastPrepare(rank, obj, src) ==
    IF obj.kind = "tensor"
    THEN (IF obj.shape = <<>> THEN Tensor(<<1>>, obj.data) ELSE obj)
    ELSE FloatTensorOfBytes(Pickle(obj))

\* xm.collective_broadcast(tensors, root_ordinal): every rank scales its tensor by 1
\* (the root) or 0 and the tensors are summed element by element, which needs the
\* same shape on every rank.
RECURSIVE ScaledSum(_, _, _, _)
ScaledSum(sent, src, i, r) ==
    IF r < 0 THEN 0
    ELSE (IF r = src THEN 1 ELSE 0) * sent[r].data[i] + ScaledSum(sent, src, i, r - 1)
XLACollectiveBroadcast(sent, src) ==
    IF \A r \in DOMAIN sent : sent[r].kind = "tensor" /\ sent[r].shape = sent[src].shape
    THEN Tensor(sent[src].shape,
                [i \in 1..Len(sent[src].data) |-> ScaledSum(sent, src, i, Cardinality(DOMAIN sent) - 1)])
    ELSE BcFailed

\* XLAStrategy.broadcast, lines 188-194: what a rank makes of the tensor received.
XLABroadcastFinish(obj, received) ==
    IF obj.kind = "tensor" \/ received.kind # "tensor"
    THEN received
    ELSE Unpickle(BytesOfFloatTensor(received))

\* What a rank hands to the collective.
BroadcastPrepare(strategy, rank, obj, src) ==
    CASE strategy = "ddp" -> DDPBroadcastPrepare(rank, obj, src)
      [] strategy = "hpu" -> HPUBroadcastPrepare(rank, obj, src)
      [] strategy = "xla" -> XLABroadcastPrepare(rank, obj, src)

\* What broadcast returns on a rank once the collective has completed.
BroadcastReturn(strategy, obj, sent, src) ==
    CASE strategy = "ddp" -> BroadcastObjectList(sent, src)
      [] strategy = "hpu" -> HPUBroadcastObjectList(sent, src)
      [] strategy = "xla" -> XLABroadcastFinish(obj, XLACollectiveBroadcast(sent, src))

BcInit ==
    /\ bc_strategy \in {"ddp", "hpu", "xla"}
    /\ bc_launched \in (IF bc_strategy = "xla" THEN BOOLEAN ELSE {TRUE})
    /\ bc_n \in 1..MaxWorld
    /\ bc_src \in BcRanks
    /\ bc_obj \in [BcRanks -> BcValues]
    /\ bc_pc = [r \in BcRanks |-> "idle"]
    /\ bc_sent = [r \in BcRanks |-> BcNothing]
    /\ bc_out = [r \in BcRanks |-> BcNothing]

\* XLAStrategy.broadcast, lines 167-168: before launch the argument is returned as is.
BcCallUnlaunched(r) ==
    /\ bc_pc[r] = "idle" /\ bc_strategy = "xla" /\ ~bc_launched
    /\ bc_out' = [bc_out EXCEPT ![r] = bc_obj[r]]
    /\ bc_pc' = [bc_pc EXCEPT ![r] = "done"]
    /\ UNCHANGED <<bc_strategy, bc_launched, bc_n, bc_src, bc_obj, bc_sent>>

\* A rank calls broadcast(obj, src) and enters the collective.
BcCall(r) ==
    /\ bc_pc[r] = "idle" /\ bc_launched
    /\ bc_sent' = [bc_sent EXCEPT ![r] = BroadcastPrepare(bc_strategy, r, bc_obj[r], bc_src)]
    /\ bc_pc' = [bc_pc EXCEPT ![r] = "waiting"]
    /\ UNCHANGED <<bc_strategy, bc_launched, bc_n, bc_src, bc_obj, bc_out>>

\* Every rank is in the collective: it completes and broadcast returns on every rank.
BcComplete ==
    /\ \A r \in BcRanks : bc_pc[r] = "waiting"
    /\ bc_out' = [r \in BcRanks |-> BroadcastReturn(bc_strategy, bc_obj[r], bc_sent, bc_src)]
    /\ bc_pc' = [r \in BcRanks |-> "done"]
    /\ UNCHANGED <<bc_strategy, bc_launched, bc_n, bc_src, bc_obj, bc_sent>>

\* C6 (as claimed): after launch, when all ranks have called broadcast(obj_r, src=k),
\* the value returned on every rank equals obj_k, for every strategy, every k and
\* whatever the other ranks passed in.
C6_BroadcastReturnsSource ==
    (bc_launched /\ \A r \in BcRanks : bc_pc[r] = "done")
        => \A r \in BcRanks : bc_out[r] = bc_obj[bc_src]

\* ================================================= XLAStrategy collectives
XcRanks == 0..(xc_n - 1)
XcOps == {"barrier", "broadcast", "reduce", "all_gather"}
\* The reduce_op argument of reduce: None, a string, or a member of ReduceOp.
ReduceOpNone == [type |-> "NoneType", name |-> ""]
ReduceOpStr(s) == [type |-> "str", name |-> s]
ReduceOpEnum(m) == [type |-> "ReduceOp", name |-> m]
XcReduceStrings == {"sum", "SUM", "Sum", "mean", "Mean", "avg", "AVG", "max", "none"}
XcReduceOps ==
    {ReduceOpNone} \cup {ReduceOpStr(s) : s \in XcReduceStrings}
    \cup {ReduceOpEnum("SUM"), ReduceOpEnum("MAX")}
\* The four of them that the runs of all collectives go through.
XcBasicReduceOps == {ReduceOpNone, ReduceOpStr("sum"), ReduceOpStr("mean"), ReduceOpStr("max")}

\* A faulty lower() that leaves the letters as they are: C35 must reject it.
Lower_Bug(s) == s
\* str.lower() on the strings above.
Lower(s) ==
    CASE s \in {"SUM", "Sum"} -> "sum"
      [] s = "Mean" -> "mean"
      [] s = "AVG" -> "avg"
      [] OTHER -> s

\* Arguments: a 0-d tensor holding a rank index, a 1-d tensor, an object that is no tensor.
XcValues ==
    {Tensor(<<>>, <<v>>) : v \in 0..(MaxWorld - 1)} \cup {Tensor(<<2>>, <<3, 4>>), PyTrue}

\* reduce, lines 202-204: a ReduceOp other than SUM and a string other than sum, mean,
\* avg (in any letter case) are refused.
XLAReduceInvalid(reduce_op) ==
    \/ reduce_op.type = "ReduceOp" /\ reduce_op.name # "SUM"
    \/ reduce_op.type = "str" /\ Lower(reduce_op.name) \notin {"sum", "mean", "avg"}

\* The exception a call raises before any cross-rank operation, or "none".
\* reduce, lines 199-200: a non-tensor is made a tensor on root_device, and reading
\* root_device before launch raises RuntimeError (lines 91-93); lines 202-208: ValueError.
\* all_gather, lines 279-282: NotImplementedError for a non-tensor.
XcEntryError(op, launched, arg, reduce_op) ==
    CASE op = "reduce" /\ arg.kind # "tensor" /\ ~launched -> "RuntimeError"
      [] op = "reduce" /\ XLAReduceInvalid(reduce_op) -> "ValueError"
      [] op = "all_gather" /\ launched /\ arg.kind # "tensor" -> "NotImplementedError"
      [] OTHER -> "none"

\* barrier, broadcast and all_gather start with `if not self._launched: return`
\* (lines 156, 167, 277); reduce has no such test.
XcHasLaunchGuard(op) == op \in {"barrier", "broadcast", "all_gather"}

\* What a guarded call returns before launch.
XcPassThrough(op, arg) == IF op = "barrier" THEN PyNone ELSE arg

\* The cross-rank operation of each collective (lines 164, 187, 212, 291).
XcCrossRankOp(op) ==
    CASE op = "barrier" -> "xm.rendezvous"
      [] op = "broadcast" -> "xm.collective_broadcast"
      [] op = "reduce" -> "xm.mesh_reduce"
      [] op = "all_gather" -> "xm.all_gather"

\* reduce, lines 199-200
XLAReducePrepare(output) ==
    IF output.kind = "tensor" THEN output ELSE Tensor(<<>>, output.data)

\* all_gather, lines 283-286
XLAAllGatherPrepare(tensor) ==
    IF tensor.shape = <<>> THEN Tensor(<<1>>, tensor.data) ELSE tensor

\* What a rank hands to the cross-rank operation.
XcPrepare(op, rank, arg) ==
    CASE op = "barrier" -> PyNone
      [] op = "broadcast" -> XLABroadcastPrepare(rank, arg, 0)
      [] op = "reduce" -> XLAReducePrepare(arg)
      [] op = "all_gather" -> XLAAllGatherPrepare(arg)

\* xm.mesh_reduce("reduce", output, sum): the sum of the tensors of the ranks in it.
RECURSIVE SumOver(_, _, _)
SumOver(sent, i, ranks) ==
    IF ranks = {} THEN 0
    ELSE LET r == CHOOSE x \in ranks : TRUE IN sent[r].data[i] + SumOver(sent, i, ranks \ {r})
MeshReduceSum(sent, ranks) ==
    LET r0 == CHOOSE x \in ranks : TRUE IN
    IF \A r \in ranks : sent[r].shape = sent[r0].shape
    THEN Tensor(sent[r0].shape, [i \in 1..Len(sent[r0].data) |-> SumOver(sent, i, ranks)])
    ELSE BcFailed

\* reduce, lines 214-217: the sum, divided by world_size for "mean" / "avg". An
\* element of the quotient is kept as <<numerator, denominator>>.
XLAReduceFinish(reduce_op, summed, n) ==
    IF reduce_op.type = "str" /\ Lower(reduce_op.name) \in {"avg", "mean"} /\ summed.kind = "tensor"
    THEN Tensor(summed.shape, [i \in 1..Len(summed.data) |-> <<summed.data[i], n>>])
    ELSE summed

\* xm.all_gather(tensor): the tensors of all ranks, which must have one shape,
\* concatenated along dimension 0 in rank order.
RECURSIVE ConcatData(_, _)
ConcatData(sent, r) == IF r < 0 THEN <<>> ELSE ConcatData(sent, r - 1) \o sent[r].data
XLAAllGather(sent) ==
    LET n == Cardinality(DOMAIN sent) IN
    IF \A r \in DOMAIN sent : sent[r].kind = "tensor" /\ sent[r].shape = sent[0].shape
    THEN Tensor(<<n * sent[0].shape[1]>> \o Tail(sent[0].shape), ConcatData(sent, n - 1))
    ELSE BcFailed

\* What the call returns on a rank once the cross-rank operation has completed.
XcReturn(op, reduce_op, arg, sent) ==
    CASE op = "barrier" -> PyNone
      [] op = "broadcast" -> XLABroadcastFinish(arg, XLACollectiveBroadcast(sent, 0))
      [] op = "reduce" ->
            XLAReduceFinish(reduce_op, MeshReduceSum(sent, DOMAIN sent), Cardinality(DOMAIN sent))
      [] op = "all_gather" -> XLAAllGather(sent)

XcInitFor(launched, sizes, ops, reduce_ops) ==
    /\ xc_launched \in launched
    /\ xc_n \in sizes
    /\ xc_op \in ops
    /\ xc_reduce_op \in (IF xc_op = "reduce" THEN reduce_ops ELSE {ReduceOpNone})
    /\ xc_arg \in [XcRanks -> XcValues]
    /\ xc_pc = [r \in XcRanks |-> "idle"]
    /\ xc_issued = [r \in XcRanks |-> <<>>]
    /\ xc_sent = [r \in XcRanks |-> BcNothing]
    /\ xc_out = [r \in XcRanks |-> BcNothing]
    /\ xc_err = [r \in XcRanks |-> "none"]
XcInit == XcInitFor(BOOLEAN, 1..MaxWorld, XcOps, XcBasicReduceOps)

\* Before launch a guarded collective returns at once.
XcCallUnlaunched(r) ==
    /\ xc_pc[r] = "idle" /\ ~xc_launched /\ XcHasLaunchGuard(xc_op)
    /\ xc_out' = [xc_out EXCEPT ![r] = XcPassThrough(xc_op, xc_arg[r])]
    /\ xc_pc' = [xc_pc EXCEPT ![r] = "done"]
    /\ UNCHANGED <<xc_launched, xc_n, xc_op, xc_reduce_op, xc_arg, xc_issued, xc_sent, xc_err>>

\* The call raises before any cross-rank operation.
XcCallRaises(r) ==
    /\ xc_pc[r] = "idle" /\ (xc_launched \/ ~XcHasLaunchGuard(xc_op))
    /\ XcEntryError(xc_op, xc_launched, xc_arg[r], xc_reduce_op) # "none"
    /\ xc_err' = [xc_err EXCEPT ![r] = XcEntryError(xc_op, xc_launched, xc_arg[r], xc_reduce_op)]
    /\ xc_pc' = [xc_pc EXCEPT ![r] = "raised"]
    /\ UNCHANGED <<xc_launched, xc_n, xc_op, xc_reduce_op, xc_arg, xc_issued, xc_sent, xc_out>>

\* The call enters its cross-rank operation.
XcCall(r) ==
    /\ xc_pc[r] = "idle" /\ (xc_launched \/ ~XcHasLaunchGuard(xc_op))
    /\ XcEntryError(xc_op, xc_launched, xc_arg[r], xc_reduce_op) = "none"
    /\ xc_sent' = [xc_sent EXCEPT ![r] = XcPrepare(xc_op, r, xc_arg[r])]
    /\ xc_issued' = [xc_issued EXCEPT ![r] = Append(@, XcCrossRankOp(xc_op))]
    /\ xc_pc' = [xc_pc EXCEPT ![r] = "waiting"]
    /\ UNCHANGED <<xc_launched, xc_n, xc_op, xc_reduce_op, xc_arg, xc_out, xc_err>>

\* After launch: every rank is in the cross-rank operation, which completes.
XcComplete ==
    /\ xc_launched
    /\ \A r \in XcRanks : xc_pc[r] = "waiting"
    /\ xc_out' = [r \in XcRanks |-> XcReturn(xc_op, xc_reduce_op, xc_arg[r], xc_sent)]
    /\ xc_pc' = [r \in XcRanks |-> "done"]
    /\ UNCHANGED <<xc_launched, xc_n, xc_op, xc_reduce_op, xc_arg, xc_issued, xc_sent, xc_err>>

\* Before launch there is no process group: a cross-rank operation entered all the
\* same either fails or completes with the caller as its only participant.
XcCompleteUnlaunched(r) ==
    /\ ~xc_launched /\ xc_pc[r] = "waiting"
    /\ \/ /\ xc_err' = [xc_err EXCEPT ![r] = "RuntimeError"]
          /\ xc_pc' = [xc_pc EXCEPT ![r] = "raised"]
          /\ UNCHANGED xc_out
       \/ /\ xc_out' = [xc_out EXCEPT ![r] =
                  XLAReduceFinish(xc_reduce_op, MeshReduceSum(xc_sent, {r}), 1)]
          /\ xc_pc' = [xc_pc EXCEPT ![r] = "done"]
          /\ UNCHANGED xc_err
    /\ UNCHANGED <<xc_launched, xc_n, xc_op, xc_reduce_op, xc_arg, xc_issued, xc_sent>>

\* The sum of element i of the arguments of ranks 0..r.
RECURSIVE C35_Total(_, _)
C35_Total(i, r) == IF r < 0 THEN 0 ELSE xc_arg[r].data[i] + C35_Total(i, r - 1)
C35_SameShapes == \A r \in XcRanks : Len(xc_arg[r].data) = Len(xc_arg[0].data)
C35_SumOps == {ReduceOpNone, ReduceOpEnum("SUM")} \cup {ReduceOpStr(s) : s \in {"sum", "SUM", "Sum"}}
C35_MeanOps == {ReduceOpStr(s) : s \in {"mean", "Mean", "avg", "AVG"}}

\* C35: on a launched XLAStrategy, reduce returns on every rank the sum of all ranks'
\* values for "sum" in any letter case, ReduceOp.SUM and None, that sum over world_size
\* for "mean" and "avg" in any letter case; for any other reduce_op every rank raises
\* ValueError without having issued a cross-rank operation, so none ever waits.
C35_ReduceSumOrMean ==
    (xc_op = "reduce" /\ xc_launched) =>
        \A r \in XcRanks :
            /\ xc_reduce_op \in C35_SumOps \cup C35_MeanOps =>
                  /\ xc_err[r] = "none"
                  /\ (xc_pc[r] = "done" /\ C35_SameShapes) =>
                        /\ xc_out[r].kind = "tensor"
                        /\ Len(xc_out[r].data) = Len(xc_arg[r].data)
                        /\ \A i \in 1..Len(xc_arg[r].data) :
                              xc_out[r].data[i] =
                                  IF xc_reduce_op \in C35_SumOps
                                  THEN C35_Total(i, xc_n - 1)
                                  ELSE <<C35_Total(i, xc_n - 1), xc_n>>
            /\ xc_reduce_op \notin C35_SumOps \cup C35_MeanOps =>
                  /\ xc_pc[r] \in {"idle", "raised"} /\ xc_issued[r] = <<>>
                  /\ xc_pc[r] = "raised" => xc_err[r] = "ValueError"

C35_Witness ==
    /\ xc_op = "reduce" /\ xc_launched /\ xc_n = 2 /\ xc_reduce_op = ReduceOpStr("AVG")
    /\ xc_arg[0] = Tensor(<<2>>, <<3, 4>>) /\ xc_arg[1] = Tensor(<<2>>, <<3, 4>>)
    /\ \A r \in XcRanks : xc_pc[r] = "done" /\ xc_out[r] = Tensor(<<2>>, <<<<6, 2>>, <<8, 2>>>>)

\* C12 (as claimed): before launch each of barrier, broadcast, reduce and all_gather
\* returns without raising and without entering a cross-rank operation; broadcast and
\* all_gather return their argument unchanged.
C12_UnlaunchedPassThrough ==
    ~xc_launched => \A r \in XcRanks :
        /\ xc_pc[r] # "raised" /\ xc_err[r] = "none"
        /\ xc_pc[r] # "waiting" /\ xc_issued[r] = <<>>
        /\ (xc_pc[r] = "done" /\ xc_op \in {"broadcast", "all_gather"}) => xc_out[r] = xc_arg[r]

\* The stacking of the contributions: leading dimension world_size, slice r from rank r.
C13_Stacked(args) ==
    Tensor(<<Cardinality(DOMAIN args)>> \o args[0].shape, ConcatData(args, Cardinality(DOMAIN args) - 1))

\* C13 (as claimed): after launch all_gather returns on every rank the tensor whose
\* leading dimension is world_size and whose r-th slice is rank r's contribution
\* (for contributions of one shape), and a non-tensor argument raises
\* NotImplementedError.
C13_AllGatherStacks ==
    (xc_launched /\ xc_op = "all_gather") =>
        /\ \A r \in XcRanks : xc_arg[r].kind # "tensor" =>
              (xc_pc[r] \in {"idle", "raised"} /\ (xc_pc[r] = "raised" => xc_err[r] = "NotImplementedError"))
        /\ (/\ \A r \in XcRanks : xc_pc[r] = "done"
            /\ \A r \in XcRanks : xc_arg[r].shape = xc_arg[0].shape)
           => \A r \in XcRanks : xc_out[r] = C13_Stacked(xc_arg)

\* ============================================ DDPStrategy on one process
\* The longest sequence of calls followed.
MaxCalls == 3

\* self.model, outermost layer first; <<>> is None.
LcNoModel == <<>>
LcModule == <<"LightningModule">>
IsDDP(model) == model # <<>> /\ model[1] = "DistributedDataParallel"

\* DDPStrategy.__init__ (lines 94-103): no model, no PIDs, no sync directory.
\*   model     self.model
\*   synced    the module's batch-norm layers are the synchronized ones
\*   on        the device type the module's parameters are on
\*   hooks     calls of register_ddp_comm_hook
\*   mkdtemps  sync directories created on this node for this strategy
\*   sync_dir  self._sync_dir: 0 for None, k for the k-th directory of the node
\*   pids      self._pids is set
\*   flag      self._rank_0_will_call_children_scripts
\*   environ   the variables of os.environ that the strategy classes set
LcConstructed ==
    [model |-> LcNoModel, synced |-> FALSE, on |-> "cpu", hooks |-> 0, mkdtemps |-> 0,
     sync_dir |-> 0, pids |-> FALSE, flag |-> FALSE, environ |-> {}]

\* The outcome of a step of a handler: the state left, the exception raised or
\* "none", and whether the handler has returned.
Ok(st) == [st |-> st, err |-> "none", done |-> FALSE]
Return(st) == [st |-> st, err |-> "none", done |-> TRUE]
Raise(st, err) == [st |-> st, err |-> err, done |-> TRUE]

\* The next step of a handler: not run once the handler has returned or raised; it
\* fails with no effect if it is the step at which the run is made to fail.
Then(r, k, failing, Step(_)) ==
    IF r.done THEN r
    ELSE IF failing = k THEN Raise(r.st, "RuntimeError")
    ELSE Step(r.st)

\* Strategy.lightning_module: the LightningModule inside self.model, None without a model.
lightning_module(model) == IF model = LcNoModel THEN LcNoModel ELSE LcModule

\* setup, line 145: super().setup(trainer)
SetupSuper(st) == Ok(st)
\* setup, line 147: every rank takes rank 0's self-spawn flag
SetupFlag(st) == Ok([st EXCEPT !.flag = lc_flag0])
\* setup, lines 148-149: _share_information_to_prevent_deadlock, in which local rank 0
\* of the node makes a new directory that every rank of the node then keeps
SetupShare(st) ==
    IF ShouldRun(lc_env, st.flag)
    THEN Ok([st EXCEPT !.pids = TRUE, !.mkdtemps = @ + 1, !.sync_dir = st.mkdtemps + 1])
    ELSE Ok(st)
\* setup, line 152: model_to_device (lines 303-305)
SetupToDevice(st) ==
    IF st.model = LcNoModel THEN Raise(st, "AttributeError")
    ELSE Ok([st EXCEPT !.on = lc_device])
\* A faulty setup that goes on to wrap the model whatever the trainer function: C14
\* must reject it.
SetupLayerSync_Bug(st) == IF lc_layer_sync THEN Ok([st EXCEPT !.synced = TRUE]) ELSE Ok(st)

\* setup, lines 155-160: return unless fitting, else apply layer sync
SetupLayerSync(st) ==
    IF lc_fn # "fit" THEN Return(st)
    ELSE IF lc_layer_sync THEN Ok([st EXCEPT !.synced = TRUE])
    ELSE Ok(st)
\* setup, line 162: configure_ddp (lines 272-276) wraps self.model and registers the
\* hooks; _register_ddp_hooks reads lightning_module.trainer.state.fn (line 224)
DDPWrap(model) == <<"DistributedDataParallel", "LightningDistributedModule">> \o model
\* (LightningDistributedModule is not in src/: given a model that is no LightningModule
\* it either wraps it all the same or raises, depending on its version.)
SetupConfigureDDP(st) ==
    LET wrapped == [st EXCEPT !.model = DDPWrap(@), !.hooks = @ + 1] IN
    IF st.model # LcModule /\ lc_strict THEN Raise(st, "ValueError")
    ELSE IF lc_trainer THEN Return(wrapped)
    ELSE Raise(wrapped, "AttributeError")

\* The steps of setup, of which step `failing` (if any) raises.
SetupSteps == 1..6
DDPSetup(st, failing) ==
    LET r1 == Then(Ok(st), 1, failing, SetupSuper)
        r2 == Then(r1, 2, failing, SetupFlag)
        r3 == Then(r2, 3, failing, SetupShare)
        r4 == Then(r3, 4, failing, SetupToDevice)
        r5 == Then(r4, 5, failing, SetupLayerSync)
    IN  Then(r5, 6, failing, SetupConfigureDDP)

\* A call of setup or teardown and what it left; plain if it was not made to fail.
LcEntry(call, r, failing) ==
    [call |-> call, err |-> r.err, st |-> r.st, plain |-> failing = 0]

LcInit ==
    /\ lc_class \in {"ddp", "hpu", "xla"}
    /\ lc_fn \in {"fit", "validate", "test", "predict"}
    /\ lc_trainer = FALSE
    /\ lc_layer_sync \in BOOLEAN
    /\ lc_device \in {"cpu", "cuda"}
    /\ lc_env \in {"0", "1"}
    /\ lc_flag0 \in BOOLEAN
    /\ lc_strict \in BOOLEAN
    /\ lc_st = LcConstructed
    /\ lc_hist = <<>>

LcInputs == <<lc_class, lc_fn, lc_layer_sync, lc_device, lc_env, lc_flag0, lc_strict>>

\* Strategy.connect(model)
LcConnect ==
    /\ lc_st.model = LcNoModel
    /\ lc_st' = [lc_st EXCEPT !.model = LcModule]
    /\ UNCHANGED <<LcInputs, lc_trainer, lc_hist>>

\* The trainer attaches itself to the module, before the first setup or teardown of
\* the strategy.
LcAttachTrainer ==
    /\ Len(lc_hist) = 0
    /\ lc_st.model # LcNoModel /\ ~lc_trainer
    /\ lc_trainer' = TRUE
    /\ UNCHANGED <<LcInputs, lc_st, lc_hist>>

\* The environment variables a subclass sets: HPUParallelStrategy.setup_environment
\* (lines 93-96: ID, and HCCL_DISTRIBUTED_BACKEND with the hccl backend) and
\* XLAStrategy.setup (lines 110-111: PT_XLA_DEBUG in debug mode), before the first
\* setup or teardown of the strategy.
ClassEnviron(class) ==
    CASE class = "hpu" -> {{"ID"}, {"ID", "HCCL_DISTRIBUTED_BACKEND"}}
      [] class = "xla" -> {{"PT_XLA_DEBUG"}}
      [] OTHER -> {}
LcSetEnviron ==
    /\ Len(lc_hist) = 0
    /\ lc_st.environ = {}
    /\ \E e \in ClassEnviron(lc_class) : lc_st' = [lc_st EXCEPT !.environ = e]
    /\ UNCHANGED <<LcInputs, lc_trainer, lc_hist>>

\* DDPStrategy.setup(trainer), which runs to its end or fails at one of its steps.
\* (XLAStrategy has a setup of its own.)
LcSetup(failing) ==
    /\ lc_class # "xla"
    /\ Len(lc_hist) < MaxCalls
    /\ lc_st' = DDPSetup(lc_st, failing).st
    /\ lc_hist' = Append(lc_hist, LcEntry("setup", DDPSetup(lc_st, failing), failing))
    /\ UNCHANGED <<LcInputs, lc_trainer>>

\* teardown, line 431: super().teardown()
TeardownSuper(st) == Ok(st)
\* teardown, lines 432-433: a wrapped model is replaced by the module inside it
TeardownUnwrap(st) ==
    IF IsDDP(st.model) THEN Ok([st EXCEPT !.model = lightning_module(@)]) ELSE Ok(st)
\* teardown, lines 435-442: self.lightning_module.trainer is read, also when
\* lightning_module is None; in a fit run with layer sync the conversion is reverted
TeardownRevert(st) ==
    IF lightning_module(st.model) = LcNoModel THEN Raise(st, "AttributeError")
    ELSE IF lc_trainer /\ lc_fn = "fit" /\ lc_layer_sync THEN Ok([st EXCEPT !.synced = FALSE])
    ELSE Ok(st)
\* teardown, lines 444-449: on cuda the module goes back to the CPU
TeardownToCpu(st) ==
    IF lc_device = "cuda" THEN Return([st EXCEPT !.on = "cpu"]) ELSE Return(st)

DDPTeardown(st) ==
    LET r1 == Then(Ok(st), 1, 0, TeardownSuper)
        r2 == Then(r1, 2, 0, TeardownUnwrap)
        r3 == Then(r2, 3, 0, TeardownRevert)
    IN  Then(r3, 4, 0, TeardownToCpu)

\* HPUParallelStrategy.teardown (lines 163-167) and XLAStrategy.teardown (lines
\* 293-295): super().teardown(), then os.environ.pop(name, None) for their variables.
PoppedByTeardown(class) ==
    CASE class = "hpu" -> {"ID", "HCCL_DISTRIBUTED_BACKEND"}
      [] class = "xla" -> {"PT_XLA_DEBUG"}
      [] OTHER -> {}
ClassTeardown_Bug(class, st) ==
    LET r == DDPTeardown(st) IN
    IF r.err # "none" THEN r
    ELSE IF ~(PoppedByTeardown(class) \subseteq r.st.environ) THEN Raise(r.st, "KeyError")
    ELSE Return([r.st EXCEPT !.environ = @ \ PoppedByTeardown(class)])
ClassTeardown(class, st) ==
    LET r == DDPTeardown(st) IN
    IF r.err # "none" THEN r
    ELSE Return([r.st EXCEPT !.environ = @ \ PoppedByTeardown(class)])

\* teardown() of the strategy's class
LcTeardown ==
    /\ Len(lc_hist) < MaxCalls
    /\ lc_st' = ClassTeardown(lc_class, lc_st).st
    /\ lc_hist' = Append(lc_hist, LcEntry("teardown", ClassTeardown(lc_class, lc_st), 0))
    /\ UNCHANGED <<LcInputs, lc_trainer>>

C17_TeardownAfterPartialSetup ==
    \A i \in 1..Len(lc_hist) : lc_hist[i].call = "teardown" => lc_hist[i].err = "none"


\* ---------------------------------------------------------------------------------
\* DDPStrategy: world ranks, num_nodes and rank_zero_only
\* ---------------------------------------------------------------------------------
\* The processes of the run; the run is launched with a cluster environment.
WrProcs == (0..(wr_nodes - 1)) \X (0..(wr_procs - 1))
\* The values the trainer or the user may assign to strategy.num_nodes.
WrNumNodesValues == {1, 2}

\* A call of a rank_zero_only-decorated function: not made, body run, body skipped;
\* launched tells whether setup_distributed had run in the process before the call.
WrNoCall == [body |-> "no call", launched |-> FALSE]

\* utilities/distributed.py lines 30-37: the wrapped function runs the body only if
\* rank_zero_only.rank == 0, and otherwise returns None.
rank_zero_only(rank) == IF rank = 0 THEN "ran" ELSE "skipped"

\* set_world_ranks, lines 190-191: what the cluster environment is given.
WrGlobalRank(p) == node_rank(p) * wr_procs + local_rank(p)
WrWorldSize(p) == wr_num_nodes[p] * wr_procs

\* A faulty warning rank (the rank within the node): C21 must reject it.
WarningRank_Bug(p, env_global_rank) == local_rank(p)
\* setup_distributed, line 176, and set_world_ranks, line 192: rank_zero_only.rank
\* is the global rank read back from the cluster environment.
WarningRank(p, env_global_rank) == env_global_rank

\* DDPStrategy.distributed_sampler_kwargs (lines 127-129)
distributed_sampler_kwargs(p) ==
    [num_replicas |-> wr_num_nodes[p] * wr_procs, rank |-> wr_env_rank[p]]

\* The state of every process after the strategy is constructed and before
\* setup_environment; rank_zero_only.rank is 0 by default (distributed.py lines 46-50).
WrInit ==
    /\ \E t \in TopologiesUpTo(MaxWorld) : wr_nodes = t[1] /\ wr_procs = t[2]
    /\ wr_num_nodes = [p \in WrProcs |-> wr_nodes]
    /\ wr_env_rank = [p \in WrProcs |-> Unset]
    /\ wr_env_world = [p \in WrProcs |-> Unset]
    /\ wr_rzo = [p \in WrProcs |-> 0]
    /\ wr_log = [p \in WrProcs |-> WrNoCall]

\* DDPStrategy.setup_distributed (lines 170-185) with set_world_ranks (lines 187-192),
\* once in every process.
WrSetupDistributed(p) ==
    /\ wr_env_rank[p] = Unset
    /\ wr_env_rank' = [wr_env_rank EXCEPT ![p] = WrGlobalRank(p)]
    /\ wr_env_world' = [wr_env_world EXCEPT ![p] = WrWorldSize(p)]
    /\ wr_rzo' = [wr_rzo EXCEPT ![p] = WarningRank(p, WrGlobalRank(p))]
    /\ UNCHANGED <<wr_nodes, wr_procs, wr_num_nodes, wr_log>>

\* The num_nodes setter (lines 117-120): only _num_nodes is assigned.
WrSetNumNodes(p, n) ==
    /\ wr_num_nodes[p] # n
    /\ wr_num_nodes' = [wr_num_nodes EXCEPT ![p] = n]
    /\ UNCHANGED <<wr_nodes, wr_procs, wr_env_rank, wr_env_world, wr_rzo, wr_log>>

\* A process calls a rank_zero_only-decorated function (a logger method, a warning).
WrLog(p) ==
    /\ wr_log' = [wr_log EXCEPT ![p] = [body |-> rank_zero_only(wr_rzo[p]),
                                        launched |-> wr_env_rank[p] # Unset]]
    /\ UNCHANGED <<wr_nodes, wr_procs, wr_num_nodes, wr_env_rank, wr_env_world, wr_rzo>>

WrLaunched(p) == wr_env_rank[p] # Unset

\* C21: once setup_distributed has run on every rank, rank_zero_only.rank of each
\* process is its global rank, exactly one process of the run has rank 0, and a
\* decorated function called after setup_distributed runs its body in the process
\* of global rank 0 and in no other.
C21_RankZeroOnlyLogs ==
    /\ \A p \in WrProcs : WrLaunched(p) =>
          /\ wr_rzo[p] = wr_env_rank[p]
          /\ wr_rzo[p] = node_rank(p) * wr_procs + local_rank(p)
          /\ wr_log[p].launched => (wr_log[p].body = "ran" <=> wr_env_rank[p] = 0)
    /\ (\A p \in WrProcs : WrLaunched(p)) =>
          /\ Cardinality({p \in WrProcs : wr_rzo[p] = 0}) = 1
          /\ Cardinality({p \in WrProcs : wr_log[p].launched /\ wr_log[p].body = "ran"}) <= 1

C21_Witness ==
    /\ wr_nodes >= 2
    /\ \A p \in WrProcs : WrLaunched(p) /\ wr_log[p].launched
    /\ \E p \in WrProcs : wr_log[p].body = "ran"
    /\ \E p \in WrProcs : node_rank(p) = 1 /\ local_rank(p) = 0 /\ wr_log[p].body = "skipped"

\* C22 (as claimed): once set_world_ranks has run in a process, its world size is
\* num_nodes * num_processes and its global rank is
\* node_rank * num_processes + local_rank in every later state, whatever is assigned
\* to num_nodes, and distributed_sampler_kwargs reports num_replicas = world size.
C22_WorldRanksImmutable ==
    \A p \in WrProcs : WrLaunched(p) =>
        /\ wr_env_rank[p] = node_rank(p) * wr_procs + local_rank(p)
        /\ wr_env_world[p] = wr_num_nodes[p] * wr_procs
        /\ distributed_sampler_kwargs(p).num_replicas = wr_env_world[p]


\* ---------------------------------------------------------------------------------
\* DDPStrategy: find_unused_parameters and the process-group backend
\* ---------------------------------------------------------------------------------
\* register_strategies (lines 348-360): the two names DDPStrategy is registered under.
CfStrategyNames == {"ddp", "ddp_find_unused_parameters_false"}
\* find_unused_parameters among the keyword arguments: absent, True or False.
CfFlagValues == {"unset", "True", "False"}
CfBackends == {"gloo", "nccl", "mpi"}

\* __init__, line 95, with the keyword arguments of the registry entry (lines
\* 349-354): self._ddp_kwargs["find_unused_parameters"] after construction.
DDPKwargsOf(name, user) == IF name = "ddp_find_unused_parameters_false" THEN "False" ELSE user

\* A faulty default (False when the user set nothing): C25 must reject it.
FindUnusedDefault_Bug(flag) == IF flag = "unset" THEN "False" ELSE flag
\* pre_configure_ddp, line 199: self._ddp_kwargs.get("find_unused_parameters", True)
FindUnusedDefault(flag) == IF flag = "unset" THEN "True" ELSE flag
\* pre_configure_ddp, lines 200-208: with manual optimization a false flag is
\* replaced by True, with a warning.
ManualOverrides(automatic_optimization, flag) == ~automatic_optimization /\ flag # "True"

\* __init__, line 103: self._pg_backend after construction.
PgBackendAfterInit(pg_backend) == None
\* get_default_process_group_backend_for_device(root_device)
DefaultBackendFor(device) == IF device = "cuda" THEN "nccl" ELSE "gloo"
\* setup_distributed, lines 180-184: a or b or c
ChosenBackend(own, env, device) ==
    IF own # None THEN own ELSE IF env # None THEN env ELSE DefaultBackendFor(device)

CfInit ==
    /\ cf_name \in CfStrategyNames
    /\ cf_user \in CfFlagValues
    /\ cf_name = "ddp_find_unused_parameters_false" => cf_user = "unset"
    /\ cf_auto \in BOOLEAN
    /\ cf_flag = DDPKwargsOf(cf_name, cf_user)
    /\ cf_configured = FALSE /\ cf_warnings = 0
    /\ cf_pg_arg \in CfBackends \cup {None}
    /\ cf_env \in CfBackends \cup {None}
    /\ cf_device \in {"cpu", "cuda"}
    /\ cf_pg_backend = PgBackendAfterInit(cf_pg_arg)
    /\ cf_inits = <<>>

\* DDPStrategy.pre_configure_ddp (lines 194-208)
CfPreConfigureDDP ==
    /\ ~cf_configured
    /\ cf_configured' = TRUE
    /\ IF ManualOverrides(cf_auto, FindUnusedDefault(cf_flag))
       THEN cf_flag' = "True" /\ cf_warnings' = cf_warnings + 1
       ELSE cf_flag' = FindUnusedDefault(cf_flag) /\ UNCHANGED cf_warnings
    /\ UNCHANGED <<cf_name, cf_user, cf_auto, cf_pg_arg, cf_env, cf_device, cf_pg_backend,
                   cf_inits>>

\* DDPStrategy.setup_distributed (lines 170-185): the backend is chosen, stored and
\* handed to init_dist_connection.
CfSetupDistributed ==
    /\ Len(cf_inits) < MaxInits
    /\ cf_pg_backend' = ChosenBackend(cf_pg_backend, cf_env, cf_device)
    /\ cf_inits' = Append(cf_inits, [backend |-> ChosenBackend(cf_pg_backend, cf_env, cf_device),
                                     env |-> cf_env])
    /\ UNCHANGED <<cf_name, cf_user, cf_auto, cf_flag, cf_configured, cf_warnings, cf_pg_arg,
                   cf_env, cf_device>>

\* The environment-declared backend changes between two calls.
CfSetEnv(e) ==
    /\ cf_env # e /\ Len(cf_inits) = 1
    /\ cf_env' = e
    /\ UNCHANGED <<cf_name, cf_user, cf_auto, cf_flag, cf_configured, cf_warnings, cf_pg_arg,
                   cf_device, cf_pg_backend, cf_inits>>

\* C25: after pre_configure_ddp, find_unused_parameters is True when the user set
\* nothing, is the user's value when it was set and optimization is automatic, and
\* is True under manual optimization whatever the user set; it is False only for an
\* explicit False (the user's, or that of ddp_find_unused_parameters_false) with
\* automatic optimization.
C25_FindUnusedParameters ==
    cf_configured =>
        /\ (cf_name = "ddp" /\ cf_user = "unset") => cf_flag = "True"
        /\ (cf_name = "ddp" /\ cf_user # "unset" /\ cf_auto) => cf_flag = cf_user
        /\ ~cf_auto => cf_flag = "True"
        /\ cf_flag = "False" <=>
              /\ cf_auto
              /\ cf_user = "False" \/ cf_name = "ddp_find_unused_parameters_false"
        /\ cf_warnings = IF ~cf_auto /\ DDPKwargsOf(cf_name, cf_user) = "False" THEN 1 ELSE 0

C25_Witness ==
    /\ cf_configured /\ ~cf_auto /\ cf_user = "False" /\ cf_flag = "True" /\ cf_warnings = 1

\* C26 (as claimed): the backend handed to the process group is the pg_backend given
\* to the constructor if any, else the environment-declared backend if set, else
\* the default for the root device's type; later calls keep the first choice.
C26_BackendPrecedence ==
    \A i \in 1..Len(cf_inits) :
        cf_inits[i].backend =
            IF cf_pg_arg # None THEN cf_pg_arg
            ELSE IF cf_inits[1].env # None THEN cf_inits[1].env
            ELSE DefaultBackendFor(cf_device)


\* ---------------------------------------------------------------------------------
\* lightning_app queues: get(timeout)
\* ---------------------------------------------------------------------------------
QueueClasses == {"SingleProcessQueue", "MultiProcessQueue", "RedisQueue", "HTTPQueue"}
\* The timeout argument: None, or a number of seconds (a tick of the clock).
NoTimeout == [given |-> FALSE, secs |-> 0]
Seconds(s) == [given |-> TRUE, secs |-> s]
QTimeouts == {NoTimeout} \cup {Seconds(s) : s \in 0..MaxWait}

\* How a get waits: "forever", "until" a deadline, or not at all ("poll": one look
\* at the queue), and what it does when it gives up: raise queue.Empty or return None.
QPlan(wait, secs, expired) == [wait |-> wait, secs |-> secs, expired |-> expired]

\* SingleProcessQueue.get (lines 181-184) and MultiProcessQueue.get (lines 196-199):
\* self.queue.get(timeout=timeout, block=(timeout is None)); a get of the standard
\* queue with block=False looks once and ignores the timeout.
StdQueueGet(timeout, default_timeout) ==
    LET t == IF timeout.given /\ timeout.secs = 0 THEN Seconds(default_timeout) ELSE timeout IN
    IF ~t.given THEN QPlan("forever", 0, "Empty") ELSE QPlan("poll", 0, "Empty")

\* RedisQueue.get (lines 254-281): blpop with timeout 0 blocks; None after the
\* timeout becomes queue.Empty.
RedisQueueGet(timeout, default_timeout) ==
    LET t == IF ~timeout.given THEN 0
             ELSE IF timeout.secs = 0 THEN default_timeout ELSE timeout.secs IN
    IF t = 0 THEN QPlan("forever", 0, "Empty") ELSE QPlan("until", t, "Empty")

\* HTTPQueue.get (lines 327-346): a loop of _get for None, one _get for 0, and for
\* a positive timeout a loop that ends, and with it the function, when the time is up.
HTTPQueueGet(timeout, default_timeout) ==
    IF ~timeout.given THEN QPlan("forever", 0, "Empty")
    ELSE IF timeout.secs = 0 THEN QPlan("poll", 0, "Empty")
    ELSE QPlan("until", timeout.secs, "None")

QueueGet(class, timeout, default_timeout) ==
    CASE class = "RedisQueue" -> RedisQueueGet(timeout, default_timeout)
      [] class = "HTTPQueue" -> HTTPQueueGet(timeout, default_timeout)
      [] OTHER -> StdQueueGet(timeout, default_timeout)

QInit ==
    /\ q_class \in QueueClasses
    /\ q_default \in 1..MaxWait
    /\ q_timeout = NoTimeout
    /\ q_items = <<>> /\ q_puts = 0 /\ q_clock = 0
    /\ q_pc = "idle" /\ q_start = 0 /\ q_out = "pending"

\* The consumer calls get(timeout).
QGetCall(timeout) ==
    /\ q_pc = "idle"
    /\ q_timeout' = timeout /\ q_start' = q_clock /\ q_pc' = "waiting"
    /\ UNCHANGED <<q_class, q_default, q_items, q_puts, q_clock, q_out>>

\* A producer calls put(item).
QPut ==
    /\ q_puts < MaxPuts
    /\ q_items' = Append(q_items, q_puts + 1) /\ q_puts' = q_puts + 1
    /\ UNCHANGED <<q_class, q_default, q_timeout, q_clock, q_pc, q_start, q_out>>

\* A second passes.
QTick ==
    /\ q_clock < MaxTime
    /\ q_clock' = q_clock + 1
    /\ UNCHANGED <<q_class, q_default, q_timeout, q_items, q_puts, q_pc, q_start, q_out>>

\* The get looks at the queue: it returns the leftmost item if there is one; with
\* none it gives up if it does not wait or its time is up, and else keeps waiting.
QGetReturn ==
    /\ q_pc = "waiting"
    /\ LET plan == QueueGet(q_class, q_timeout, q_default) IN
       IF q_items # <<>>
       THEN q_out' = "item" /\ q_items' = Tail(q_items) /\ q_pc' = "done"
       ELSE /\ plan.wait = "poll" \/ (plan.wait = "until" /\ q_clock - q_start >= plan.secs)
            /\ q_out' = plan.expired /\ q_pc' = "done" /\ UNCHANGED q_items
    /\ UNCHANGED <<q_class, q_default, q_timeout, q_puts, q_clock, q_start>>

\* The time the claim gives a get to wait before it may give up.
QClaimedWait(timeout, default_timeout) ==
    IF timeout.secs = 0 THEN default_timeout ELSE timeout.secs

\* C27 (as claimed): for every queue class, get(timeout=None) blocks until there is
\* an item, get(timeout=0) waits up to default_timeout and get(timeout=t) up to t
\* seconds; a get ends with an item, or with queue.Empty once its wait has expired
\* with no item available, and in no other way.
C27_GetWaitsThenEmpty ==
    q_pc = "done" =>
        \/ q_out = "item"
        \/ /\ q_out = "Empty"
           /\ q_timeout.given
           /\ q_clock - q_start >= QClaimedWait(q_timeout, q_default)


\* ---------------------------------------------------------------------------------
\* CombinedStreamingDataset and its iterator
\* ---------------------------------------------------------------------------------
\* The datasets are numbered from 1; sample k of dataset i is [ds |-> i, idx |-> k].
CdDatasets == 1..Len(cd_sizes)
Sample(i, k) == [ds |-> i, idx |-> k]

\* A faulty choice that ignores the weights: C29 must reject it.
Choices_Bug(weights) == 1..Len(weights)
\* __next__, line 112: self._rng.choices(indexes, weights=weights, k=1) returns an
\* index of positive weight, which one depends on the seed.
Choices(weights) == {i \in 1..Len(weights) : weights[i] > 0}

\* CombinedStreamingDataset(datasets, seed, weights): datasets of every length, and
\* weights that are not all zero (lines 45-49 divide by their sum).
CdInit ==
    /\ \E n \in 1..MaxDatasets :
          /\ cd_sizes \in [1..n -> 0..MaxSize]
          /\ cd_weights \in [1..n -> 0..1]
    /\ Choices(cd_weights) # {}
    /\ cd_pc = "constructed" /\ cd_iters = 0
    /\ cd_pos = [i \in CdDatasets |-> 0]
    /\ cd_yielded = [i \in CdDatasets |-> 0]
    /\ cd_out = <<>> /\ cd_chosen = 0

\* CombinedStreamingDataset.__iter__ (lines 70-75) and _CombinedDatasetIterator.__init__
\* (lines 98-108): fresh iterators over the datasets, counters at 0.
CdIter ==
    /\ cd_iters < MaxIters
    /\ cd_pc' = "iterating" /\ cd_iters' = cd_iters + 1
    /\ cd_pos' = [i \in CdDatasets |-> 0]
    /\ cd_yielded' = [i \in CdDatasets |-> 0]
    /\ cd_out' = <<>> /\ cd_chosen' = 0
    /\ UNCHANGED <<cd_sizes, cd_weights>>

\* _CombinedDatasetIterator.__next__ (lines 110-123): choose a dataset, count, then
\* take the next sample of that dataset; its StopIteration ends the iteration.
CdNext(i) ==
    /\ cd_pc = "iterating"
    /\ i \in Choices(cd_weights)
    /\ cd_chosen' = i
    /\ cd_yielded' = [cd_yielded EXCEPT ![i] = @ + 1]
    /\ IF cd_pos[i] < cd_sizes[i]
       THEN /\ cd_out' = Append(cd_out, Sample(i, cd_pos[i]))
            /\ cd_pos' = [cd_pos EXCEPT ![i] = @ + 1]
            /\ UNCHANGED cd_pc
       ELSE /\ cd_pc' = "stopped"
            /\ UNCHANGED <<cd_out, cd_pos>>
    /\ UNCHANGED <<cd_sizes, cd_weights, cd_iters>>

\* The samples of dataset i among the first n samples returned.
ReturnedFrom(i, n) == {j \in 1..n : cd_out[j].ds = i}

\* C28 (as claimed): at every point of an iteration, the end included,
\* _num_samples_yielded[i] is the number of samples returned from dataset i, the
\* counters sum to the number of samples returned, and a new iter() starts at 0.
C28_CountersMatchReturned ==
    /\ \A i \in CdDatasets : cd_yielded[i] = Cardinality(ReturnedFrom(i, Len(cd_out)))
    /\ (cd_pc = "iterating" /\ cd_out = <<>>) => \A i \in CdDatasets : cd_yielded[i] = 0

\* C29: the output holds, for each dataset, a prefix of its samples in their order;
\* no sample of a dataset of weight 0; the iteration ends the first time the chosen
\* dataset is exhausted, whatever the others still hold; and with weights [1, 0] the
\* output at the end is the whole first dataset.
C29_PrefixesAndWeights ==
    /\ \A j \in 1..Len(cd_out) :
          /\ cd_out[j].idx = Cardinality(ReturnedFrom(cd_out[j].ds, j - 1))
          /\ cd_out[j].idx < cd_sizes[cd_out[j].ds]
          /\ cd_weights[cd_out[j].ds] > 0
    /\ cd_pc = "stopped" =>
          /\ cd_chosen \in CdDatasets
          /\ Cardinality(ReturnedFrom(cd_chosen, Len(cd_out))) = cd_sizes[cd_chosen]
    /\ cd_pc = "iterating" =>
          \A i \in CdDatasets : cd_chosen = i => cd_pos[i] > 0
    /\ (cd_pc = "stopped" /\ cd_weights = <<1, 0>>) =>
          cd_out = [k \in 1..cd_sizes[1] |-> Sample(1, k - 1)]

C29_Witness ==
    /\ cd_pc = "stopped" /\ Len(cd_sizes) = 2 /\ cd_weights = <<1, 1>>
    /\ cd_chosen = 1 /\ cd_sizes[1] = 1
    /\ Len(cd_out) = 2 /\ cd_out[1].ds = 2 /\ cd_out[2].ds = 1
    /\ cd_pos[2] < cd_sizes[2]


\* ---------------------------------------------------------------------------------
\* TensorRunningAccum
\* ---------------------------------------------------------------------------------
RaValues == 0..MaxValue
\* The slots of memory are numbered from 0 as in the code; ra_memory[k + 1] is slot k.
RaSlot(k) == ra_memory[k + 1]

\* TensorRunningAccum.__init__: torch.Tensor(window_length) is uninitialised memory.
RaInit ==
    /\ ra_window \in 1..MaxWindow
    /\ ra_memory \in [1..ra_window -> RaValues]
    /\ ra_current_idx = 0 /\ ra_last_idx = Unset /\ ra_rotated = FALSE
    /\ ra_since = <<>> /\ ra_last_call = "init" /\ ra_calls = 0

\* TensorRunningAccum.append(x)
RaAppend(x) ==
    /\ ra_calls < MaxAccumCalls
    /\ ra_memory' = [ra_memory EXCEPT ![ra_current_idx + 1] = x]
    /\ ra_last_idx' = ra_current_idx
    /\ ra_current_idx' = (ra_current_idx + 1) % ra_window
    /\ ra_rotated' = (ra_rotated \/ ra_current_idx' = 0)
    /\ ra_since' = Append(ra_since, x)
    /\ ra_last_call' = "append" /\ ra_calls' = ra_calls + 1
    /\ UNCHANGED ra_window

\* TensorRunningAccum.reset(): "self = TensorRunningAccum(self.window_length)" binds
\* the local name self to a new object; no field of the accumulator is assigned.
RaReset ==
    /\ ra_calls < MaxAccumCalls
    /\ ra_since' = <<>>
    /\ ra_last_call' = "reset" /\ ra_calls' = ra_calls + 1
    /\ UNCHANGED <<ra_window, ra_memory, ra_current_idx, ra_last_idx, ra_rotated>>

\* What an accessor returns: <<>> stands for None, <<v>> for the value v; a mean is
\* the pair <<sum, count>>.
RaLast == IF ra_last_idx # Unset THEN <<RaSlot(ra_last_idx)>> ELSE <<>>

\* _agg_memory: the slots it aggregates over.
AggSlots == IF ra_rotated THEN 0..(ra_window - 1) ELSE 0..(ra_current_idx - 1)
RECURSIVE SumSlots(_)
SumSlots(S) == IF S = {} THEN 0 ELSE LET k == CHOOSE k \in S : TRUE
                                     IN RaSlot(k) + SumSlots(S \ {k})
AggMemory(how) ==
    IF ra_last_idx = Unset THEN <<>>
    ELSE IF how = "mean" THEN <<<<SumSlots(AggSlots), Cardinality(AggSlots)>>>>
    ELSE IF how = "max"
         THEN <<CHOOSE v \in RaValues : /\ \E k \in AggSlots : RaSlot(k) = v
                                        /\ \A k \in AggSlots : RaSlot(k) <= v>>
         ELSE <<CHOOSE v \in RaValues : /\ \E k \in AggSlots : RaSlot(k) = v
                                        /\ \A k \in AggSlots : RaSlot(k) >= v>>

\* The values appended since the last reset, at most the last window_length of them.
SinceWindow ==
    LET n == Len(ra_since)
        m == IF n < ra_window THEN n ELSE ra_window
    IN [j \in 1..m |-> ra_since[n - m + j]]
RECURSIVE SumSeq(_)
SumSeq(s) == IF s = <<>> THEN 0 ELSE Head(s) + SumSeq(Tail(s))
SeqValues(s) == {s[j] : j \in 1..Len(s)}

\* C30 (as claimed): right after reset() every accessor returns None, and after later
\* appends the aggregates are those of the values appended since the reset.
C30_ResetEmpties ==
    /\ ra_last_call = "reset" =>
          /\ RaLast = <<>> /\ AggMemory("mean") = <<>>
          /\ AggMemory("min") = <<>> /\ AggMemory("max") = <<>>
    /\ ra_last_call = "append" =>
          /\ RaLast = <<ra_since[Len(ra_since)]>>
          /\ AggMemory("mean") = <<<<SumSeq(SinceWindow), Len(SinceWindow)>>>>
          /\ AggMemory("max")[1] \in SeqValues(SinceWindow)
          /\ AggMemory("min")[1] \in SeqValues(SinceWindow)
          /\ \A v \in SeqValues(SinceWindow) :
                AggMemory("min")[1] <= v /\ v <= AggMemory("max")[1]


\* ---------------------------------------------------------------------------------
\* The batch-size finder (tuner/batch_size_scaling.py)
\* ---------------------------------------------------------------------------------
\* scale_batch_size: the default of steps_per_trial.
StepsPerTrial == 3
BsModes == {"power", "binsearch", "other"}
\* The trainers scale_batch_size is called with. pbar is the progress-bar callback:
\* "none", or its state "enabled" / "disabled".
BsTrainers ==
    [fn : {"fit", "validate"}, fast_dev_run : BOOLEAN, loggers : {<<>>, <<"tensorboard">>},
     callbacks : {<<"early_stopping">>}, max_steps : {-1}, limit_val_batches : {10},
     limit_eval_batches : {20}, has_verbose : BOOLEAN, loop_verbose : {TRUE},
     loop_state : {"at_call"}, restarting : BOOLEAN, pbar : {"none", "enabled", "disabled"}]
NoParams == [dumped |-> FALSE]
NoTrial == [size |-> 0, ok |-> TRUE, low |-> 0, high |-> 0, gap |-> 0, gap_before |-> 0,
            bounded |-> FALSE, exhausted |-> FALSE]

\* __scale_batch_dump_params
DumpParams(tr) ==
    [dumped |-> TRUE, loggers |-> tr.loggers, callbacks |-> tr.callbacks,
     max_steps |-> IF tr.fn = "fit" THEN <<tr.max_steps>> ELSE <<>>,
     limit_val_batches |-> IF tr.fn = "fit" THEN <<tr.limit_val_batches>> ELSE <<>>,
     limit_eval_batches |-> IF tr.fn = "fit" THEN <<>> ELSE <<tr.limit_eval_batches>>,
     loop_verbose |-> IF tr.fn # "fit" /\ tr.has_verbose THEN <<tr.loop_verbose>> ELSE <<>>,
     loop_state_dict |-> tr.loop_state]

\* __scale_batch_reset_params
ResetParams(tr, steps_per_trial) ==
    LET t1 == [tr EXCEPT !.loggers = IF tr.loggers # <<>> THEN <<"dummy">> ELSE <<>>,
                         !.callbacks = <<>>]
    IN IF tr.fn = "fit"
       THEN [t1 EXCEPT !.limit_val_batches = steps_per_trial, !.max_steps = steps_per_trial]
       ELSE [t1 EXCEPT !.limit_eval_batches = steps_per_trial,
                       !.loop_verbose = IF tr.has_verbose THEN FALSE ELSE @]

\* A faulty restore that leaves the callbacks emptied: C34 must reject it.
RestoreParams_Bug(tr, params) ==
    LET t1 == [tr EXCEPT !.loggers = params.loggers]
        t2 == IF tr.fn = "fit"
              THEN [t1 EXCEPT !.max_steps = params.max_steps[1],
                              !.limit_val_batches = params.limit_val_batches[1]]
              ELSE [t1 EXCEPT !.limit_eval_batches = params.limit_eval_batches[1]]
        t3 == [t2 EXCEPT !.loop_state = params.loop_state_dict, !.restarting = FALSE]
    IN IF params.loop_verbose # <<>> THEN [t3 EXCEPT !.loop_verbose = params.loop_verbose[1]] ELSE t3
\* __scale_batch_restore_params
RestoreParams(tr, params) ==
    LET t1 == [tr EXCEPT !.loggers = params.loggers, !.callbacks = params.callbacks]
        t2 == IF tr.fn = "fit"
              THEN [t1 EXCEPT !.max_steps = params.max_steps[1],
                              !.limit_val_batches = params.limit_val_batches[1]]
              ELSE [t1 EXCEPT !.limit_eval_batches = params.limit_eval_batches[1]]
        t3 == [t2 EXCEPT !.loop_state = params.loop_state_dict, !.restarting = FALSE]
    IN IF params.loop_verbose # <<>> THEN [t3 EXCEPT !.loop_verbose = params.loop_verbose[1]] ELSE t3

\* _try_loop_run up to the outcome of loop.run(): the loop starts from the dumped
\* state, not restarting, and ends somewhere else.
AfterLoopRun(tr) == [tr EXCEPT !.loop_state = "after_trial", !.restarting = FALSE]

\* len(dataloader) of the loader built with batch size bs_loader (drop_last is off).
LenLoader == (bs_N + bs_loader - 1) \div bs_loader
\* _is_valid_batch_size
IsValidBatchSize(batch_size) == ~bs_has_len \/ batch_size <= LenLoader
\* _adjust_batch_size: the size it sets on the model and returns, new_size being
\* value, or int(batch_size * factor) computed by the caller.
AdjustBatchSize(new_size) ==
    IF ~IsValidBatchSize(new_size)
    THEN (IF new_size < bs_N THEN new_size ELSE bs_N)
    ELSE new_size

\* A faulty midpoint that never moves below the upper bound: C33 must reject it.
Midval_Bug(high, low) == high
\* _run_binary_scaling, lines 193 and 211
Midval(high, low) == (high + low) \div 2

\* The outcome of loop.run() with the model's batch size: an out-of-memory
\* RuntimeError (one that is_oom_error recognises) above the memory threshold.
TrialSucceeds == bs_size <= bs_T

BsSearchInputs ==
    /\ bs_mode \in BsModes
    /\ bs_T \in 1..MaxThreshold /\ bs_N \in 1..MaxData /\ bs_has_len \in BOOLEAN
    /\ bs_max_trials \in 0..MaxTrials /\ bs_init_val \in 1..MaxInitVal
    /\ bs_size \in 1..2
\* The state when scale_batch_size is called.
BsInit ==
    /\ BsSearchInputs
    /\ bs_trainer \in BsTrainers /\ bs_trainer0 = bs_trainer
    /\ bs_loader = bs_size /\ bs_pc = "called"
    /\ bs_new = 0 /\ bs_low = 0 /\ bs_high = 0 /\ bs_count = 0 /\ bs_iter = 0
    /\ bs_trials = 0 /\ bs_last = NoTrial
    /\ bs_params = NoParams /\ bs_ckpt = {} /\ bs_restored = FALSE /\ bs_result = 0

BsInputs == <<bs_mode, bs_T, bs_N, bs_has_len, bs_max_trials, bs_init_val, bs_trainer0>>
BsSearchVars == <<bs_low, bs_high, bs_count, bs_iter, bs_trials, bs_last>>

\* scale_batch_size, lines 39-61 up to the call of the search.
BsStart ==
    /\ bs_pc = "called"
    /\ IF bs_trainer.fast_dev_run
       THEN /\ bs_pc' = "returned"
            /\ UNCHANGED <<bs_trainer, bs_params, bs_ckpt, bs_size, bs_new, bs_low>>
       ELSE /\ bs_ckpt' = {"scale_batch_size.ckpt"}
            /\ bs_params' = DumpParams(bs_trainer)
            /\ bs_trainer' =
                  LET tr == ResetParams(bs_trainer, StepsPerTrial)
                  IN [tr EXCEPT !.pbar = IF @ = "none" THEN @ ELSE "disabled"]
            /\ bs_size' = AdjustBatchSize(bs_init_val)
            /\ bs_new' = bs_size'
            /\ bs_low' = IF bs_mode = "binsearch" THEN 1 ELSE bs_low
            /\ bs_pc' = IF bs_mode \in {"power", "binsearch"} THEN bs_mode ELSE "searched"
    /\ UNCHANGED <<BsInputs, bs_loader, bs_high, bs_count, bs_iter, bs_trials, bs_last,
                   bs_restored, bs_result>>

\* What a trial leaves in the history; exhausted: the trial succeeded and was the one
\* that used up max_trials (line 186).
TrialRecord(low, high, exhausted) ==
    [size |-> bs_size, ok |-> TrialSucceeds, low |-> low, high |-> high,
     gap |-> high - low, gap_before |-> bs_high - bs_low, bounded |-> bs_high # 0,
     exhausted |-> exhausted]

\* A RuntimeError of loop.run() that is not an out-of-memory error leaves the search
\* and scale_batch_size (lines 162-163 and 220-221).
BsOtherError ==
    /\ bs_pc \in {"power", "binsearch"}
    /\ bs_mode = "power" => bs_iter < bs_max_trials
    /\ bs_trials < MaxRuns
    /\ bs_pc' = "raised"
    /\ bs_trainer' = AfterLoopRun(bs_trainer)
    /\ bs_trials' = bs_trials + 1
    /\ UNCHANGED <<BsInputs, bs_size, bs_loader, bs_new, bs_low, bs_high, bs_count, bs_iter,
                   bs_last, bs_params, bs_ckpt, bs_restored, bs_result>>

\* _run_power_scaling: one pass of the for loop, or its end after max_trials passes.
BsPowerStep ==
    /\ bs_pc = "power"
    /\ IF bs_iter >= bs_max_trials
       THEN /\ bs_pc' = "searched"
            /\ UNCHANGED <<bs_trainer, bs_size, bs_loader, bs_new, bs_iter, bs_trials, bs_last>>
       ELSE /\ bs_trials < MaxRuns
            /\ bs_trainer' = AfterLoopRun(bs_trainer)
            /\ bs_trials' = bs_trials + 1
            /\ bs_iter' = bs_iter + 1
            /\ bs_size' = IF TrialSucceeds THEN AdjustBatchSize(bs_size * 2)
                                           ELSE AdjustBatchSize(bs_size)
            /\ bs_new' = bs_size'
            /\ LET changed == bs_size' # bs_size IN
               /\ bs_loader' = IF TrialSucceeds /\ changed THEN bs_size' ELSE bs_loader
               /\ bs_pc' = IF TrialSucceeds /\ changed THEN "power" ELSE "searched"
               /\ bs_last' = TrialRecord(0, 0, FALSE)
    /\ UNCHANGED <<BsInputs, bs_low, bs_high, bs_count, bs_params, bs_ckpt, bs_restored,
                   bs_result>>

\* _run_binary_scaling: one pass of the while loop. high = 0 stands for None ("if
\* high:" takes both for unknown).
BsBinaryStep ==
    /\ bs_pc = "binsearch"
    /\ bs_trials < MaxRuns
    /\ bs_trainer' = AfterLoopRun(bs_trainer)
    /\ bs_trials' = bs_trials + 1
    /\ IF TrialSucceeds
       THEN /\ bs_count' = bs_count + 1
            /\ IF bs_count' > bs_max_trials
               THEN /\ bs_pc' = "searched"
                    /\ bs_last' = TrialRecord(bs_low, bs_high, TRUE)
                    /\ UNCHANGED <<bs_size, bs_loader, bs_new, bs_low, bs_high>>
               ELSE /\ bs_low' = bs_new
                    /\ UNCHANGED bs_high
                    /\ IF bs_high # 0 /\ bs_high - bs_low' <= 1
                       THEN /\ bs_pc' = "searched"
                            /\ bs_last' = TrialRecord(bs_low', bs_high, FALSE)
                            /\ UNCHANGED <<bs_size, bs_loader, bs_new>>
                       ELSE /\ bs_size' = IF bs_high # 0
                                          THEN AdjustBatchSize(Midval(bs_high, bs_low'))
                                          ELSE AdjustBatchSize(bs_size * 2)
                            /\ bs_new' = bs_size'
                            /\ LET changed == bs_size' # bs_size IN
                               /\ bs_loader' = IF changed THEN bs_size' ELSE bs_loader
                               /\ bs_pc' = IF changed THEN "binsearch" ELSE "searched"
                               /\ bs_last' = TrialRecord(bs_low', bs_high, FALSE)
       ELSE /\ bs_high' = bs_new
            /\ bs_size' = AdjustBatchSize(Midval(bs_high', bs_low))
            /\ bs_new' = bs_size'
            /\ bs_loader' = IF bs_size' # bs_size THEN bs_size' ELSE bs_loader
            /\ bs_pc' = IF bs_high' - bs_low <= 1 THEN "searched" ELSE "binsearch"
            /\ bs_last' = TrialRecord(bs_low, bs_high', FALSE)
            /\ UNCHANGED <<bs_low, bs_count>>
    /\ UNCHANGED <<BsInputs, bs_iter, bs_params, bs_ckpt, bs_restored, bs_result>>

\* scale_batch_size, lines 63-75: the parameters are restored, then the checkpoint is
\* restored from and removed. (CheckpointConnector.restore and
\* Strategy.remove_checkpoint are not part of the sources at hand: restoring brings
\* back what the checkpoint of line 45 holds, the loop's state at the call.)
BsFinish ==
    /\ bs_pc = "searched"
    /\ bs_trainer' =
          LET tr == RestoreParams(bs_trainer, bs_params)
          IN [tr EXCEPT !.pbar = IF @ = "none" THEN @ ELSE "enabled",
                        !.loop_state = bs_trainer0.loop_state]
    /\ bs_restored' = ("scale_batch_size.ckpt" \in bs_ckpt)
    /\ bs_ckpt' = {}
    /\ bs_result' = bs_new
    /\ bs_pc' = "returned"
    /\ UNCHANGED <<BsInputs, BsSearchVars, bs_size, bs_loader, bs_new, bs_params>>

\* C32 (as claimed): in power mode the search runs at most max_trials trials, and
\* when the last trial, at batch size b, ran out of memory, the size set on the model
\* and returned is b halved.
C32_PowerHalvesOnOom ==
    (bs_mode = "power" /\ bs_pc \in {"searched", "returned"}) =>
        /\ bs_trials <= bs_max_trials
        /\ (bs_last # NoTrial /\ ~bs_last.ok) =>
              /\ bs_size = bs_last.size \div 2
              /\ bs_new = bs_size
              /\ bs_pc = "returned" => bs_result = bs_size

\* What C33 says of the bounds, but for the narrowing: once high is known,
\* low <= new_size <= high, and the size the search ends with is at most the threshold.
BsBoundsHold ==
    /\ (bs_high # 0 /\ bs_pc # "raised") => (bs_low <= bs_new /\ bs_new <= bs_high)
    /\ bs_pc = "searched" => bs_new <= bs_T
    /\ bs_pc = "returned" => (bs_result <= bs_T /\ bs_size = bs_result)
BsTerminated == bs_pc \in {"returned", "raised"}

\* C33 (as claimed): in binsearch mode the bounds hold, and every trial made once high
\* is known has narrowed high - low.
C33_EveryTrialNarrows ==
    bs_mode = "binsearch" =>
        /\ BsBoundsHold
        /\ (bs_last.bounded /\ bs_pc # "raised") => bs_last.gap < bs_last.gap_before

\* The safety part of C33 as amended: the trial that uses up max_trials ends the
\* search without narrowing the bounds; every other trial made once high is known
\* narrows them.
C33_BoundsNarrow ==
    bs_mode = "binsearch" =>
        /\ BsBoundsHold
        /\ (bs_last.bounded /\ bs_pc # "raised" /\ ~bs_last.exhausted) =>
              bs_last.gap < bs_last.gap_before

\* C33 (amended): in binsearch mode, for every threshold and every initial size, the
\* search terminates, and on the way its bounds hold and narrow as stated above.
C33_BinsearchTerminates == []C33_BoundsNarrow /\ <>(bs_mode = "binsearch" => BsTerminated)

C33_Witness ==
    /\ bs_mode = "binsearch" /\ bs_pc = "returned" /\ bs_trials >= 4
    /\ bs_last.bounded /\ bs_result = bs_T /\ bs_T = MaxThreshold

\* The trainer without the two fields scale_batch_size sets to fixed values whatever
\* they were: loop.restarting (False, line 135) and the progress bar (enabled, line 70).
BsFrame(tr) == [tr EXCEPT !.restarting = FALSE, !.pbar = "none"]

EvNoLoaders == [defined |-> FALSE, max_batches |-> <<>>]
EvLoaders ==
    {EvNoLoaders} \cup
    {[defined |-> TRUE, max_batches |-> m] :
        m \in UNION {[1..k -> 0..MaxBatches] : k \in 1..MaxLoaders}}
RECURSIVE SumSeq0(_)
SumSeq0(s) == IF s = <<>> THEN 0 ELSE Head(s) + SumSeq0(Tail(s))

EvInit ==
    /\ ev_test_mode \in BOOLEAN
    /\ ev_loaders \in EvLoaders
    /\ ev_fast_dev_run \in BOOLEAN
    /\ ev_reload \in BOOLEAN
    /\ ev_loaded \in {b \in BOOLEAN : b => (ev_loaders.defined /\ ~ev_test_mode)}
    /\ ev_pc = "called" /\ ev_calls = <<>> /\ ev_max_batches = <<>>
EvInputs == <<ev_test_mode, ev_loaders, ev_fast_dev_run, ev_reload, ev_loaded>>
EvHook(name) == IF ev_test_mode THEN "on_test_" \o name ELSE "on_validation_" \o name
EvReset == IF ev_test_mode THEN "reset_test_dataloader" ELSE "reset_val_dataloader"

\* run_evaluation, lines 427-445: the hook, the choice of the dataloaders, and the
\* return when there are none.
EvBegin ==
    /\ ev_pc = "called"
    /\ ev_calls' = <<"on_pre_performance_check">> \o (IF ev_loaded THEN <<>> ELSE <<EvReset>>)
    /\ ev_max_batches' = ev_loaders.max_batches
    /\ ev_pc' = IF ev_loaders.defined THEN "selected" ELSE "returned"
    /\ UNCHANGED EvInputs

\* lines 447-460: the cap of fast_dev_run, the start callback, and the return when
\* every entry of max_batches is 0.
EvStart ==
    /\ ev_pc = "selected"
    /\ ev_max_batches' = IF ev_fast_dev_run THEN <<1>> ELSE ev_max_batches
    /\ ev_calls' = Append(ev_calls, EvHook("start"))
    /\ ev_pc' = IF SumSeq0(ev_max_batches') = 0 THEN "returned" ELSE "started"
    /\ UNCHANGED EvInputs

\* lines 463-487: the evaluation, its log, the hook, the reload and the end callback.
EvRun ==
    /\ ev_pc = "started"
    /\ ev_calls' = ev_calls \o <<"_evaluate", "log_evaluation_epoch_metrics",
                                 "on_post_performance_check">>
                            \o (IF ev_reload THEN <<EvReset>> ELSE <<>>)
                            \o <<EvHook("end")>>
    /\ ev_pc' = "returned"
    /\ UNCHANGED <<EvInputs, ev_max_batches>>

EvCount(name) == Cardinality({i \in 1..Len(ev_calls) : ev_calls[i] = name})

\* C36 (as claimed): when run_evaluation has returned, every on_validation_start
\* (on_test_start) it made has been followed by exactly one on_validation_end
\* (on_test_end), and every on_pre_performance_check by one
\* on_post_performance_check, whatever max_batches is.
C36_HooksPaired ==
    ev_pc = "returned" =>
        /\ EvCount(EvHook("start")) = EvCount(EvHook("end"))
        /\ EvCount("on_pre_performance_check") = EvCount("on_post_performance_check")
        /\ \A i \in 1..Len(ev_calls) :
              ev_calls[i] = EvHook("start") => \E j \in (i + 1)..Len(ev_calls) : ev_calls[j] = EvHook("end")


\* ---------------------------------------------------------------------------------
\* TrainerTrainingTricksMixin.clip_gradients
\* ---------------------------------------------------------------------------------
\* A parameter is its gradient, a one-element tensor holding a whole number, or Unset
\* when p.grad is None. Norms are kept squared (the norm type is 2), so that no root
\* is taken: total_sq is total_norm ** 2.
CgGrads == {Unset} \cup (0..MaxGrad)
CgNothing == [total_sq |-> 0, clipped |-> FALSE]
\* line 32: the parameters that have a gradient, in order.
RECURSIVE WithGrad(_)
WithGrad(ps) ==
    IF ps = <<>> THEN <<>>
    ELSE (IF Head(ps) # Unset THEN <<Head(ps)>> ELSE <<>>) \o WithGrad(Tail(ps))
\* line 41: p.grad.data.norm(2) ** 2
ParamNorm(g) == g * g
\* lines 39-43: total_norm ** 2. The loop of lines 40-41 only assigns param_norm;
\* add_ at line 42 follows the loop and adds what the last pass left.
TotalNormSq(parameters) == 0 + ParamNorm(parameters[Len(parameters)])
\* lines 44-46: clip_coef = max_norm / (total_norm + 1e-6) is below 1, and the
\* gradients are scaled by it, iff total_norm ** 2 >= max_norm ** 2 (whole numbers).
Clipped(max_norm, total_sq) == total_sq >= max_norm * max_norm

CgInit ==
    /\ cg_params \in UNION {[1..k -> CgGrads] : k \in 0..MaxParams}
    /\ cg_clip_val \in 0..MaxNorm
    /\ cg_pc = "called" /\ cg_out = CgNothing /\ cg_err = "none"

\* clip_gradients
CgClip ==
    /\ cg_pc = "called"
    /\ LET parameters == WithGrad(cg_params) IN
       IF cg_clip_val > 0
       THEN IF parameters = <<>>
            THEN /\ cg_err' = "IndexError" /\ cg_pc' = "raised" /\ UNCHANGED cg_out
            ELSE /\ cg_out' = [total_sq |-> TotalNormSq(parameters),
                               clipped |-> Clipped(cg_clip_val, TotalNormSq(parameters))]
                 /\ cg_pc' = "done" /\ UNCHANGED cg_err
       ELSE /\ cg_pc' = "done" /\ UNCHANGED <<cg_out, cg_err>>
    /\ UNCHANGED <<cg_params, cg_clip_val>>

\* The sum over the parameters that have a gradient of their squared norms.
RECURSIVE C37_SumSq(_)
C37_SumSq(ps) ==
    IF ps = <<>> THEN 0
    ELSE (IF Head(ps) # Unset THEN Head(ps) * Head(ps) ELSE 0) + C37_SumSq(Tail(ps))

\* C37 (as claimed): the total norm clip_gradients computes is the root of the sum,
\* over every parameter that has a gradient, of its squared norm, and the gradients
\* are scaled by max_norm / (total_norm + eps) exactly when that is below 1.
C37_TotalNormOfAll ==
    (cg_pc = "done" /\ cg_clip_val > 0) =>
        /\ cg_out.total_sq = C37_SumSq(cg_params)
        /\ cg_out.clipped <=> (C37_SumSq(cg_params) >= cg_clip_val * cg_clip_val)


\* ---------------------------------------------------------------------------------
\* CombinedStreamingDataset.load_state_dict
\* ---------------------------------------------------------------------------------
\* str(dataset_idx) for the indexes in use.
Digits == <<"0", "1", "2", "3", "4">>
StrOfIndex(i) == Digits[i + 1]
LsKeys == {StrOfIndex(i) : i \in 0..MaxDatasets}
LsStates == {"state_a", "state_b", "state_c"}
\* The state dicts handed in: any keys, any states under them.
LsStateDicts == UNION {[K -> LsStates] : K \in SUBSET LsKeys}
LsIndexes == 0..(ls_n - 1)

LsInit ==
    /\ ls_n \in 1..MaxDatasets
    /\ ls_state_dict \in LsStateDicts
    /\ ls_datasets = [i \in LsIndexes |-> "state_at_call"]
    /\ ls_pc = "called" /\ ls_err = "none"

\* The first index whose key is missing from the state dict, or the number of
\* datasets when none is: the loop of lines 90-94 loads the datasets before it.
RECURSIVE FirstMissing(_, _, _)
FirstMissing(state_dict, i, n) ==
    IF i >= n \/ StrOfIndex(i) \notin DOMAIN state_dict THEN i
    ELSE FirstMissing(state_dict, i + 1, n)

\* lines 90-94: the datasets up to index k have been given their states.
LoadedBefore(state_dict, datasets, k) ==
    [i \in DOMAIN datasets |-> IF i < k THEN state_dict[StrOfIndex(i)] ELSE datasets[i]]

\* load_state_dict (lines 86-94)
LsLoadStateDict ==
    /\ ls_pc = "called"
    /\ IF Cardinality(DOMAIN ls_state_dict) # ls_n
       THEN /\ ls_err' = "RuntimeError" /\ ls_pc' = "raised"
            /\ UNCHANGED ls_datasets
       ELSE LET k == FirstMissing(ls_state_dict, 0, ls_n) IN
            /\ ls_datasets' = LoadedBefore(ls_state_dict, ls_datasets, k)
            /\ ls_err' = IF k < ls_n THEN "RuntimeError" ELSE "none"
            /\ ls_pc' = IF k < ls_n THEN "raised" ELSE "returned"
    /\ UNCHANGED <<ls_n, ls_state_dict>>

\* C39 (as claimed): load_state_dict raises RuntimeError when the state has another
\* number of entries than there are datasets or lacks the key of some dataset index,
\* and then no dataset's state has been changed; when it returns, dataset i has been
\* given state_dict[str(i)].
C39_LoadAllOrNothing ==
    LET matches ==
            /\ Cardinality(DOMAIN ls_state_dict) = ls_n
            /\ \A i \in LsIndexes : StrOfIndex(i) \in DOMAIN ls_state_dict
    IN ls_pc # "called" =>
          /\ ~matches => (/\ ls_pc = "raised" /\ ls_err = "RuntimeError"
                          /\ \A i \in LsIndexes : ls_datasets[i] = "state_at_call")
          /\ matches => (/\ ls_pc = "returned"
                         /\ \A i \in LsIndexes : ls_datasets[i] = ls_state_dict[StrOfIndex(i)])

\* ---------------------------------------------------------------------------------
\* TorchCheckpointIOPlugin.save_checkpoint
\* ---------------------------------------------------------------------------------
\* pl.LightningModule.CHECKPOINT_HYPER_PARAMS_KEY
CHECKPOINT_HYPER_PARAMS_KEY == "hyper_parameters"
CkKeys == {"epoch", "state_dict", CHECKPOINT_HYPER_PARAMS_KEY, "callbacks"}
\* What pickling an object that cannot be pickled raises: AttributeError (a local
\* function or class), TypeError (a lock, a file handle) or pickle.PicklingError.
PickleErrors == {"AttributeError", "TypeError", "PicklingError"}
\* A mapping gives each key "absent", "picklable" (a value that pickles), or the
\* exception that pickling its value raises.
CkMappings == [CkKeys -> {"absent", "picklable"} \cup PickleErrors]
CkEmpty == [k \in CkKeys |-> "absent"]
CkNoFile == [exists |-> FALSE, content |-> CkEmpty]
Unpicklable(checkpoint) == {k \in CkKeys : checkpoint[k] \in PickleErrors}

\* atomic_save(checkpoint, path): the mapping is pickled into a buffer and the buffer
\* is then written to path. It raises what pickling raises, one of the errors of the
\* values that do not pickle, and then path is left as it was.
AtomicSaveErrors(checkpoint) ==
    IF Unpicklable(checkpoint) = {} THEN {"none"}
    ELSE {checkpoint[k] : k \in Unpicklable(checkpoint)}
AtomicSave(checkpoint, file, err) ==
    IF err = "none" THEN [exists |-> TRUE, content |-> checkpoint] ELSE file

\* A faulty pop that removes every key whose value does not pickle: C38 must reject it.
CkPop_Bug(checkpoint) ==
    [k \in CkKeys |-> IF checkpoint[k] \in PickleErrors THEN "absent" ELSE checkpoint[k]]
\* line 33: checkpoint.pop(key, None)
CkPop(checkpoint) == [checkpoint EXCEPT ![CHECKPOINT_HYPER_PARAMS_KEY] = "absent"]

CkInit ==
    /\ ck_input \in CkMappings
    /\ ck_checkpoint = ck_input
    /\ ck_file = CkNoFile
    /\ ck_warnings = 0 /\ ck_err = "pending" /\ ck_saves = 0

\* save_checkpoint (lines 25-35); first and second are what the two atomic_save
\* calls raise.
CkSaveCheckpoint(first, second) ==
    /\ ck_err = "pending"
    /\ first \in AtomicSaveErrors(ck_checkpoint)
    /\ IF first # "AttributeError"
       THEN /\ second = "none"
            /\ ck_file' = AtomicSave(ck_checkpoint, ck_file, first)
            /\ ck_err' = first
            /\ ck_saves' = 1
            /\ UNCHANGED <<ck_checkpoint, ck_warnings>>
       ELSE /\ second \in AtomicSaveErrors(CkPop(ck_checkpoint))
            /\ ck_checkpoint' = CkPop(ck_checkpoint)
            /\ ck_warnings' = ck_warnings + 1
            /\ ck_file' = AtomicSave(CkPop(ck_checkpoint), ck_file, second)
            /\ ck_err' = second
            /\ ck_saves' = 2
    /\ UNCHANGED ck_input

\* C20 (as claimed): saving a mapping in which exactly one key, whichever it is,
\* holds an object that cannot be pickled succeeds; the mapping stored at path has
\* every other key as it was and lacks only that key, and one warning is emitted.
C20_OneUnpicklableKeyDropped ==
    (ck_err # "pending" /\ Cardinality(Unpicklable(ck_input)) = 1) =>
        /\ ck_err = "none"
        /\ ck_file.exists
        /\ \A k \in CkKeys :
              ck_file.content[k] = IF k \in Unpicklable(ck_input) THEN "absent" ELSE ck_input[k]
        /\ ck_warnings = 1

\* C38: save_checkpoint attempts the write at most twice, the second time only after
\* an AttributeError of the first; the error of the retry, or an error of another type
\* from the first attempt, propagates; the caller's mapping is as it was unless the
\* retry was made, and then only the hyper-parameters key has been removed from it.
C38_AtMostOneRetry ==
    ck_err # "pending" =>
        /\ ck_saves \in {1, 2}
        /\ ck_saves = 1 =>
              /\ ck_err \in AtomicSaveErrors(ck_input) \ {"AttributeError"}
              /\ ck_checkpoint = ck_input /\ ck_warnings = 0
        /\ ck_saves = 2 =>
              /\ "AttributeError" \in AtomicSaveErrors(ck_input)
              /\ ck_checkpoint[CHECKPOINT_HYPER_PARAMS_KEY] = "absent"
              /\ \A k \in CkKeys \ {CHECKPOINT_HYPER_PARAMS_KEY} : ck_checkpoint[k] = ck_input[k]
              /\ ck_err \in AtomicSaveErrors(ck_checkpoint)
              /\ ck_err = "none" <=> ck_file.exists
              /\ ck_warnings = 1

C38_Witness ==
    /\ ck_saves = 2 /\ ck_err = "TypeError" /\ ~ck_file.exists
    /\ ck_input[CHECKPOINT_HYPER_PARAMS_KEY] = "AttributeError"
    /\ ck_input["callbacks"] = "TypeError"
    /\ ck_checkpoint[CHECKPOINT_HYPER_PARAMS_KEY] = "absent"

\* ---------------------------------------------------------------------------------
\* DDPStrategy: the step methods and reduce
\* ---------------------------------------------------------------------------------
MaxPeers == 2

StepMethods == {"training_step", "validation_step", "test_step", "predict_step"}
\* reduce_op as passed by the caller; "omitted" takes the default of line 307.
SpReduceOps == {"omitted", "mean", "sum"}
SpValues == {Tensor(<<>>, <<v>>) : v \in 0..1} \cup {PyNone, PyTrue}

\* No call yet.
SpNothing ==
    [method |-> "none", wrapped |-> FALSE, through |-> "none", err |-> "none", input |-> BcNothing,
     reduce_op |-> "none", dist |-> FALSE, n |-> 0, peers |-> 0,
     output |-> BcNothing, collective |-> "none"]
SpStep(method, through, err) ==
    [SpNothing EXCEPT !.method = method, !.through = through, !.err = err]

\* self.model(*args, **kwargs), lines 325 and 331: the call goes through whatever
\* self.model is.
CallModel(method, model) ==
    IF model = LcNoModel THEN SpStep(method, "none", "TypeError")
    ELSE IF IsDDP(model) THEN SpStep(method, "DistributedDataParallel", "none")
    ELSE SpStep(method, "LightningModule.__call__", "none")
\* self.lightning_module.<method>(*args, **kwargs), lines 334, 338 and 342
CallModuleStep(method, model) ==
    IF lightning_module(model) = LcNoModel THEN SpStep(method, "none", "AttributeError")
    ELSE SpStep(method, "LightningModule", "none")

\* DDPStrategy.training_step, validation_step, test_step, predict_step (lines 323-342)
DDPStep(method, model) ==
    CASE method = "training_step" -> CallModel(method, model)
      [] method = "validation_step" ->
            IF IsDDP(model) THEN CallModel(method, model) ELSE CallModuleStep(method, model)
      [] OTHER -> CallModuleStep(method, model)

LcStep(method) ==
    /\ sp_last' = [DDPStep(method, lc_st.model) EXCEPT !.wrapped = IsDDP(lc_st.model)]
    /\ UNCHANGED lc_vars

\* reduce, line 307: reduce_op defaults to "mean".
ReduceOpOf(reduce_op) == IF reduce_op = "omitted" THEN "mean" ELSE reduce_op

\* sync_ddp_if_available(tensor, group, reduce_op): with torch.distributed
\* initialised the tensor is all-reduced over the n ranks of the group (peers is the
\* sum of the other ranks' tensors), summed or averaged; otherwise it comes back as
\* it is. An averaged element is kept as <<numerator, denominator>>.
sync_ddp_if_available(tensor, reduce_op, dist, n, peers) ==
    IF ~dist THEN [output |-> tensor, collective |-> "none"]
    ELSE LET total == tensor.data[1] + (IF n > 1 THEN peers ELSE 0) IN
         [output |-> Tensor(tensor.shape,
                            <<IF reduce_op = "sum" THEN total ELSE <<total, n>> >>),
          collective |-> "all_reduce"]

\* DDPStrategy.reduce, a variant that synchronises whatever it is given.
DDPReduce_Bug(tensor, reduce_op, dist, n, peers) ==
    sync_ddp_if_available(tensor, ReduceOpOf(reduce_op), dist, n, peers)
\* DDPStrategy.reduce (lines 307-321)
DDPReduce(tensor, reduce_op, dist, n, peers) ==
    IF tensor.kind = "tensor"
    THEN sync_ddp_if_available(tensor, ReduceOpOf(reduce_op), dist, n, peers)
    ELSE [output |-> tensor, collective |-> "none"]

SpReduce(tensor, reduce_op, dist, n, peers) ==
    /\ sp_last' = [SpNothing EXCEPT !.method = "reduce", !.input = tensor,
                     !.reduce_op = reduce_op, !.dist = dist, !.n = n, !.peers = peers,
                     !.output = DDPReduce(tensor, reduce_op, dist, n, peers).output,
                     !.collective = DDPReduce(tensor, reduce_op, dist, n, peers).collective]

\* C18 (as claimed): validation_step, test_step and predict_step call the step method
\* of the inner LightningModule and never go through the DistributedDataParallel
\* wrapper, in a fit run as in the others; only training_step goes through the
\* wrapped model.
C18_EvalStepsBypassWrapper ==
    /\ (sp_last.method \in {"validation_step", "test_step", "predict_step"}
         /\ sp_last.err = "none") => sp_last.through = "LightningModule"
    /\ (sp_last.method = "training_step" /\ sp_last.err = "none" /\ sp_last.wrapped)
         => sp_last.through = "DistributedDataParallel"

\* C19: reduce returns a non-tensor as it is and issues no collective for it; a
\* tensor is all-reduced when torch.distributed is initialised, averaged by default
\* and when asked for "mean", summed when asked for "sum".
C19_ReducePassesNonTensors ==
    sp_last.method = "reduce" =>
        /\ sp_last.input.kind # "tensor" =>
              /\ sp_last.output = sp_last.input
              /\ sp_last.collective = "none"
        /\ sp_last.collective # "none" => sp_last.input.kind = "tensor"
        /\ (sp_last.input.kind = "tensor" /\ sp_last.dist) =>
              /\ sp_last.collective = "all_reduce"
              /\ sp_last.output.kind = "tensor"
              /\ LET total == sp_last.input.data[1]
                               + (IF sp_last.n > 1 THEN sp_last.peers ELSE 0) IN
                  IF sp_last.reduce_op = "sum"
                  THEN sp_last.output.data = <<total>>
                  ELSE sp_last.output.data = << <<total, sp_last.n>> >>

C19_Witness ==
    /\ sp_last.method = "reduce" /\ sp_last.input = PyNone /\ sp_last.dist
    /\ sp_last.n = MaxWorld /\ sp_last.reduce_op = "omitted"


\* C14: after setup returns, the model is wrapped in DistributedDataParallel if and
\* only if the trainer function is FITTING; otherwise the model is on the root device,
\* unwrapped, with no layer sync applied and no communication hook registered.
C14_WrappedIffFitting ==
    \A i \in 1..Len(lc_hist) :
        (i = 1 /\ lc_hist[i].call = "setup" /\ lc_hist[i].err = "none")
        => /\ IsDDP(lc_hist[i].st.model) <=> lc_fn = "fit"
           /\ lc_fn # "fit" =>
                 /\ lc_hist[i].st.model = <<"LightningModule">>
                 /\ lc_hist[i].st.on = lc_device
                 /\ ~lc_hist[i].st.synced
                 /\ lc_hist[i].st.hooks = 0

\* A call that was not made to fail from outside.
LcPlain(e) == e.plain

\* C15 (as claimed): a second setup in a fit run, straight after a setup that
\* returned, returns too and leaves the state the first call left: the model wrapped
\* in DistributedDataParallel exactly once and no second sync directory on the node.
C15_SetupIdempotent ==
    \A i \in 2..Len(lc_hist) :
        (/\ lc_fn = "fit"
         /\ lc_hist[i - 1].call = "setup" /\ lc_hist[i - 1].err = "none"
         /\ lc_hist[i].call = "setup" /\ LcPlain(lc_hist[i]))
        => /\ lc_hist[i].err = "none"
           /\ lc_hist[i].st = lc_hist[i - 1].st
           /\ lc_hist[i].st.model = DDPWrap(LcModule)
           /\ lc_hist[i].st.mkdtemps <= 1

C14_Witness ==
    /\ Len(lc_hist) = 1 /\ lc_hist[1].call = "setup" /\ lc_hist[1].err = "none"
    /\ lc_fn = "validate" /\ lc_layer_sync /\ lc_device = "cuda"

\* ================================================== LightningDistributed
\* Length of the buffer _encode pads to.
PadLen == 100

\* Longest string drawn (besides the strings that fill the buffer exactly).
MaxStrLen == 3

\* Characters, and their code points.
Chars == {"NUL", "a", "b", "s"}
ord(c) ==
    CASE c = "NUL" -> 0
      [] c = "a" -> 97
      [] c = "b" -> 98
      [] c = "s" -> 115
chr(x) == CHOOSE c \in Chars : ord(c) = x

\* Values: a string is a sequence of characters, a tensor a sequence of longs.
LdStr(text) == [kind |-> "str", text |-> text, longs |-> <<>>]
LdTensor(longs) == [kind |-> "tensor", text |-> <<>>, longs |-> longs]
\* torch raised (nothing to stack, or more elements than the buffer holds)
LdError == [kind |-> "error", text |-> <<>>, longs |-> <<>>]
LdNothing == [kind |-> "nothing", text |-> <<>>, longs |-> <<>>]

\* LightningDistributed._encode: the code points of obj at the start of a buffer of
\* PadLen zeros. torch.stack of no tensors raises and so does the assignment of more
\* than PadLen elements.
_encode(obj) ==
    IF Len(obj) = 0 \/ Len(obj) > PadLen
    THEN LdError
    ELSE LdTensor([i \in 1..PadLen |-> IF i <= Len(obj) THEN ord(obj[i]) ELSE 0])

\* LightningDistributed._decode: one character for every element of the tensor.
_decode(tensor) == LdStr([i \in 1..Len(tensor.longs) |-> chr(tensor.longs[i])])

LdRanks == 0..(ld_n - 1)
LdValues == {LdStr(<<>>), LdStr(<<"a">>), LdStr(<<"a", "b">>), LdTensor(<<5, 6>>)}

\* broadcast, lines 15-17
LdEncoded(x) == IF x.kind # "tensor" THEN _encode(x.text) ELSE x
\* broadcast, lines 19-20
LdBuffer(rank, x) == IF rank > 0 THEN _encode(<<"s">>) ELSE x
\* broadcast, line 21: the source rank named in torch_distrib.broadcast
LdSourceNamed(rank) == rank
\* broadcast, lines 23-25
LdReturn(x, buf) == IF x.kind # "tensor" THEN _decode(buf) ELSE buf

LdInit ==
    /\ ld_n \in 1..MaxWorld
    /\ ld_x \in [LdRanks -> LdValues]
    /\ ld_pc = [r \in LdRanks |-> "idle"]
    /\ ld_buf = [r \in LdRanks |-> LdNothing]
    /\ ld_src = [r \in LdRanks |-> Unset]
    /\ ld_out = [r \in LdRanks |-> LdNothing]

\* A rank calls broadcast(x) and its encoding raises.
LdCallRaises(r) ==
    /\ ld_pc[r] = "idle"
    /\ LdEncoded(ld_x[r]) = LdError
    /\ ld_pc' = [ld_pc EXCEPT ![r] = "raised"]
    /\ ld_out' = [ld_out EXCEPT ![r] = LdError]
    /\ UNCHANGED <<ld_n, ld_x, ld_buf, ld_src>>

\* A rank calls broadcast(x) and enters torch_distrib.broadcast.
LdCall(r) ==
    /\ ld_pc[r] = "idle"
    /\ LdEncoded(ld_x[r]) # LdError
    /\ ld_buf' = [ld_buf EXCEPT ![r] = LdBuffer(r, LdEncoded(ld_x[r]))]
    /\ ld_src' = [ld_src EXCEPT ![r] = LdSourceNamed(r)]
    /\ ld_pc' = [ld_pc EXCEPT ![r] = "waiting"]
    /\ UNCHANGED <<ld_n, ld_x, ld_out>>

\* All ranks are in the collective and name the same source: they receive its buffer.
LdComplete ==
    /\ \A r \in LdRanks : ld_pc[r] = "waiting"
    /\ \E s \in LdRanks :
        /\ \A r \in LdRanks : ld_src[r] = s
        /\ ld_buf' = [r \in LdRanks |-> ld_buf[s]]
        /\ ld_out' = [r \in LdRanks |-> LdReturn(ld_x[r], ld_buf[s])]
    /\ ld_pc' = [r \in LdRanks |-> "done"]
    /\ UNCHANGED <<ld_n, ld_x, ld_src>>

\* All ranks are in the collective but name different sources: the backend may block
\* for ever (no step), or every rank, being the source of its own broadcast, sends,
\* receives nothing and goes on with its own buffer.
LdCompleteAsSources ==
    /\ \A r \in LdRanks : ld_pc[r] = "waiting"
    /\ \E r1, r2 \in LdRanks : ld_src[r1] # ld_src[r2]
    /\ ld_out' = [r \in LdRanks |-> LdReturn(ld_x[r], ld_buf[r])]
    /\ ld_pc' = [r \in LdRanks |-> "done"]
    /\ UNCHANGED <<ld_n, ld_x, ld_buf, ld_src>>

\* C7 (as claimed): when all ranks call LightningDistributed.broadcast(x), every rank
\* names rank 0 as the source of the collective and every rank returns the value rank 0
\* passed in.
C7_SameSourceRankZero ==
    \A r \in LdRanks :
        /\ ld_pc[r] \in {"waiting", "done"} => ld_src[r] = 0
        /\ ld_pc[r] = "done" => ld_out[r] = ld_x[0]

\* ------------------------------------------------ _encode / _decode alone
RtAlphabet == {"NUL", "a", "b"}
RtStrings ==
    UNION {[1..k -> RtAlphabet] : k \in 0..MaxStrLen}
        \cup {[i \in 1..PadLen |-> c] : c \in RtAlphabet}

RtInit ==
    /\ rt_s \in RtStrings
    /\ rt_pc = "start"
    /\ rt_enc = LdNothing
    /\ rt_dec = LdNothing

\* _encode(s)
RtEncode ==
    /\ rt_pc = "start"
    /\ rt_enc' = _encode(rt_s)
    /\ rt_pc' = IF _encode(rt_s) = LdError THEN "raised" ELSE "encoded"
    /\ UNCHANGED <<rt_s, rt_dec>>

\* _decode(_encode(s))
RtDecode ==
    /\ rt_pc = "encoded"
    /\ rt_dec' = _decode(rt_enc)
    /\ rt_pc' = "decoded"
    /\ UNCHANGED <<rt_s, rt_enc>>

\* C8 (as claimed): for every string s of length 0..100, _decode(_encode(s)) is s
\* exactly: the same length and the same characters.
C8_RoundTrip ==
    rt_pc \in {"decoded", "raised"} => (rt_pc = "decoded" /\ rt_dec = LdStr(rt_s))

\* ========================================================== specifications
\* Values of a component's variables in the runs of another component.
DDPIdle ==
    /\ num_nodes = 0 /\ num_processes = 0
    /\ status = <<>> /\ pc = <<>> /\ env_rank = <<>> /\ env_world = <<>>
    /\ children_flag = <<>> /\ reconcile_env = <<>> /\ ospid = <<>> /\ pids = <<>>
    /\ sync_dir = <<>> /\ sync_dirs = <<>> /\ posted = <<>> /\ recv = <<>>
    /\ issued = <<>> /\ fs = <<>> /\ created = {} /\ kills = {}
    /\ trace = <<>> /\ kidx = <<>> /\ raised = <<>>
BcIdle ==
    /\ bc_strategy = "ddp" /\ bc_launched = FALSE /\ bc_n = 0 /\ bc_src = 0
    /\ bc_obj = <<>> /\ bc_pc = <<>> /\ bc_sent = <<>> /\ bc_out = <<>>
LdIdle ==
    /\ ld_n = 0 /\ ld_x = <<>> /\ ld_pc = <<>> /\ ld_buf = <<>> /\ ld_src = <<>>
    /\ ld_out = <<>>
RtIdle ==
    /\ rt_s = <<>> /\ rt_pc = "idle" /\ rt_enc = LdNothing /\ rt_dec = LdNothing
XcIdle ==
    /\ xc_launched = FALSE /\ xc_n = 0 /\ xc_op = "none" /\ xc_reduce_op = ReduceOpNone
    /\ xc_arg = <<>> /\ xc_pc = <<>> /\ xc_issued = <<>> /\ xc_sent = <<>>
    /\ xc_out = <<>> /\ xc_err = <<>>
LcIdle ==
    /\ lc_class = "none" /\ lc_fn = "none" /\ lc_trainer = FALSE /\ lc_layer_sync = FALSE /\ lc_device = "cpu"
    /\ lc_env = "0" /\ lc_flag0 = FALSE /\ lc_strict = FALSE
    /\ lc_st = LcConstructed /\ lc_hist = <<>>

SpIdle == sp_last = SpNothing
CkIdle ==
    /\ ck_input = CkEmpty /\ ck_checkpoint = CkEmpty /\ ck_file = CkNoFile
    /\ ck_warnings = 0 /\ ck_err = "pending" /\ ck_saves = 0
WrIdle ==
    /\ wr_nodes = 0 /\ wr_procs = 0 /\ wr_num_nodes = <<>> /\ wr_env_rank = <<>>
    /\ wr_env_world = <<>> /\ wr_rzo = <<>> /\ wr_log = <<>>
PuIdle == purged = {}
CfIdle ==
    /\ cf_name = "ddp" /\ cf_user = "unset" /\ cf_auto = TRUE /\ cf_flag = "unset"
    /\ cf_configured = FALSE /\ cf_warnings = 0 /\ cf_pg_arg = None /\ cf_env = None
    /\ cf_device = "cpu" /\ cf_pg_backend = None /\ cf_inits = <<>>
QIdle ==
    /\ q_class = "none" /\ q_default = 0 /\ q_timeout = NoTimeout /\ q_items = <<>>
    /\ q_puts = 0 /\ q_clock = 0 /\ q_pc = "idle" /\ q_start = 0 /\ q_out = "pending"
CdIdle ==
    /\ cd_sizes = <<>> /\ cd_weights = <<>> /\ cd_pc = "constructed" /\ cd_iters = 0
    /\ cd_pos = <<>> /\ cd_yielded = <<>> /\ cd_out = <<>> /\ cd_chosen = 0
RaIdle ==
    /\ ra_window = 0 /\ ra_memory = <<>> /\ ra_current_idx = 0 /\ ra_last_idx = Unset
    /\ ra_rotated = FALSE /\ ra_since = <<>> /\ ra_last_call = "init" /\ ra_calls = 0
BsIdle ==
    /\ bs_mode = "power" /\ bs_T = 0 /\ bs_N = 0 /\ bs_has_len = FALSE /\ bs_max_trials = 0
    /\ bs_init_val = 0 /\ bs_trainer = <<>> /\ bs_trainer0 = <<>> /\ bs_size = 0 /\ bs_loader = 0
    /\ bs_pc = "called" /\ bs_new = 0 /\ bs_low = 0 /\ bs_high = 0 /\ bs_count = 0 /\ bs_iter = 0
    /\ bs_trials = 0 /\ bs_last = <<>> /\ bs_params = <<>> /\ bs_ckpt = {} /\ bs_restored = FALSE
    /\ bs_result = 0
EvIdle ==
    /\ ev_test_mode = FALSE /\ ev_loaders = <<>> /\ ev_fast_dev_run = FALSE /\ ev_reload = FALSE
    /\ ev_loaded = FALSE
    /\ ev_pc = "called" /\ ev_max_batches = <<>> /\ ev_calls = <<>>
CgIdle ==
    /\ cg_params = <<>> /\ cg_clip_val = 0 /\ cg_pc = "called" /\ cg_out = <<>> /\ cg_err = "none"
LsIdle ==
    /\ ls_n = 0 /\ ls_state_dict = <<>> /\ ls_datasets = <<>> /\ ls_pc = "called" /\ ls_err = "none"

\* The runs of some components: the variables of the others are idle and stay so.
OthersIdle(g) ==
    /\ (IF "ddp" \in g THEN TRUE ELSE DDPIdle)
    /\ (IF "bc" \in g THEN TRUE ELSE BcIdle)
    /\ (IF "ld" \in g THEN TRUE ELSE LdIdle)
    /\ (IF "rt" \in g THEN TRUE ELSE RtIdle)
    /\ (IF "xc" \in g THEN TRUE ELSE XcIdle)
    /\ (IF "lc" \in g THEN TRUE ELSE LcIdle)
    /\ (IF "sp" \in g THEN TRUE ELSE SpIdle)
    /\ (IF "ck" \in g THEN TRUE ELSE CkIdle)
    /\ (IF "wr" \in g THEN TRUE ELSE WrIdle)
    /\ (IF "pu" \in g THEN TRUE ELSE PuIdle)
    /\ (IF "cf" \in g THEN TRUE ELSE CfIdle)
    /\ (IF "q" \in g THEN TRUE ELSE QIdle)
    /\ (IF "cd" \in g THEN TRUE ELSE CdIdle)
    /\ (IF "ra" \in g THEN TRUE ELSE RaIdle)
    /\ (IF "bs" \in g THEN TRUE ELSE BsIdle)
    /\ (IF "ev" \in g THEN TRUE ELSE EvIdle)
    /\ (IF "cg" \in g THEN TRUE ELSE CgIdle)
    /\ (IF "ls" \in g THEN TRUE ELSE LsIdle)
Only(g) ==
    /\ (IF "ddp" \in g THEN TRUE ELSE UNCHANGED ddp_vars)
    /\ (IF "bc" \in g THEN TRUE ELSE UNCHANGED bc_vars)
    /\ (IF "ld" \in g THEN TRUE ELSE UNCHANGED ld_vars)
    /\ (IF "rt" \in g THEN TRUE ELSE UNCHANGED rt_vars)
    /\ (IF "xc" \in g THEN TRUE ELSE UNCHANGED xc_vars)
    /\ (IF "lc" \in g THEN TRUE ELSE UNCHANGED lc_vars)
    /\ (IF "sp" \in g THEN TRUE ELSE UNCHANGED sp_vars)
    /\ (IF "ck" \in g THEN TRUE ELSE UNCHANGED ck_vars)
    /\ (IF "wr" \in g THEN TRUE ELSE UNCHANGED wr_vars)
    /\ (IF "pu" \in g THEN TRUE ELSE UNCHANGED pu_vars)
    /\ (IF "cf" \in g THEN TRUE ELSE UNCHANGED cf_vars)
    /\ (IF "q" \in g THEN TRUE ELSE UNCHANGED q_vars)
    /\ (IF "cd" \in g THEN TRUE ELSE UNCHANGED cd_vars)
    /\ (IF "ra" \in g THEN TRUE ELSE UNCHANGED ra_vars)
    /\ (IF "bs" \in g THEN TRUE ELSE UNCHANGED bs_vars)
    /\ (IF "ev" \in g THEN TRUE ELSE UNCHANGED ev_vars)
    /\ (IF "cg" \in g THEN TRUE ELSE UNCHANGED cg_vars)
    /\ (IF "ls" \in g THEN TRUE ELSE UNCHANGED ls_vars)

\* DDPStrategy: setup of every process, then the processes run, crash and reconcile.
DDPOnly == Only({"ddp"})
Init == DDPInit(TopologiesUpTo(MaxWorld)) /\ OthersIdle({"ddp"})
Next ==
    \/ \E p \in Procs : SetWorldRanks(p) /\ DDPOnly
    \/ \E p \in Procs : SetupBroadcastFlag(p) /\ DDPOnly
    \/ \E p \in Procs : SetupDecide(p) /\ DDPOnly
    \/ \E p \in Procs : SharePidsGather(p) /\ DDPOnly
    \/ \E p \in Procs : ShareInfoStart(p) /\ DDPOnly
    \/ \E p \in Procs : ShareInfoNext(p) /\ DDPOnly
    \/ CollectiveComplete /\ DDPOnly
    \/ \E p \in Procs : Crash(p) /\ DDPOnly
    \/ \E p \in Procs : ReconcileEnter(p) /\ DDPOnly
    \/ \E p \in Procs : ReconcileCheck(p) /\ DDPOnly
    \/ \E p \in Procs : ReconcileKill(p) /\ DDPOnly
    \/ \E p \in Procs : ReconcileRaise(p) /\ DDPOnly
Spec == Init /\ [][Next]_vars

\* DDPStrategy: the same runs, which may also end in teardown, on nodes whose
\* temporary directories may be swept.
RunOnly == Only({"ddp", "pu"})
InitRun == DDPInit(TopologiesUpTo(MaxRunWorld)) /\ purged = {} /\ OthersIdle({"ddp", "pu"})
NextRun ==
    \/ \E p \in Procs : SetWorldRanks(p) /\ UNCHANGED pu_vars /\ RunOnly
    \/ \E p \in Procs : SetupBroadcastFlag(p) /\ UNCHANGED pu_vars /\ RunOnly
    \/ \E p \in Procs : SetupDecide(p) /\ UNCHANGED pu_vars /\ RunOnly
    \/ \E p \in Procs : SharePidsGather(p) /\ UNCHANGED pu_vars /\ RunOnly
    \/ \E p \in Procs : ShareInfoStart(p) /\ UNCHANGED pu_vars /\ RunOnly
    \/ \E p \in Procs : ShareInfoNext(p) /\ UNCHANGED pu_vars /\ RunOnly
    \/ CollectiveComplete /\ UNCHANGED pu_vars /\ RunOnly
    \/ \E p \in Procs : Crash(p) /\ UNCHANGED pu_vars /\ RunOnly
    \/ \E p \in Procs : ReconcileEnter(p) /\ UNCHANGED pu_vars /\ RunOnly
    \/ \E p \in Procs : ReconcileCheck(p) /\ UNCHANGED pu_vars /\ RunOnly
    \/ \E p \in Procs : ReconcileKill(p) /\ UNCHANGED pu_vars /\ RunOnly
    \/ \E p \in Procs : ReconcileRaise(p) /\ UNCHANGED pu_vars /\ RunOnly
    \/ \E p \in Procs : Teardown(p) /\ UNCHANGED pu_vars /\ RunOnly
    \/ \E n \in 0..(num_nodes - 1), d \in TmpNames : Purge(n, d) /\ RunOnly
SpecRun == InitRun /\ [][NextRun]_vars

\* DDPStrategy: runs on several nodes that each hold several processes, the launch
\* being the same for all processes (only then can a rank of a multi-node run miss a
\* sentinel of its own node).
MultiNodeTopologies == {<<2, 2>>}
InitNodes ==
    /\ DDPInit(MultiNodeTopologies)
    /\ \A p, q \in Procs : children_flag[p] = children_flag[q] /\ reconcile_env[p] = reconcile_env[q]
    /\ OthersIdle({"ddp"})
SpecNodes == InitNodes /\ [][Next]_vars

\* DDPStrategy: setup of every process, in larger runs.
InitSetup == DDPInit(TopologiesUpTo(MaxSetupWorld)) /\ OthersIdle({"ddp"})
NextSetup ==
    \/ \E p \in Procs : SetWorldRanks(p) /\ DDPOnly
    \/ \E p \in Procs : SetupBroadcastFlag(p) /\ DDPOnly
    \/ \E p \in Procs : SetupDecide(p) /\ DDPOnly
    \/ \E p \in Procs : SharePidsGather(p) /\ DDPOnly
    \/ \E p \in Procs : ShareInfoStart(p) /\ DDPOnly
    \/ \E p \in Procs : ShareInfoNext(p) /\ DDPOnly
    \/ CollectiveComplete /\ DDPOnly
SpecSetup == InitSetup /\ [][NextSetup]_vars

\* One broadcast through a strategy.
BcOnly == Only({"bc"})
InitBcast == BcInit /\ OthersIdle({"bc"})
NextBcast ==
    \/ \E r \in BcRanks : BcCallUnlaunched(r) /\ BcOnly
    \/ \E r \in BcRanks : BcCall(r) /\ BcOnly
    \/ BcComplete /\ BcOnly
SpecBcast == InitBcast /\ [][NextBcast]_vars

\* One collective of XLAStrategy, before or after launch.
XcOnly == Only({"xc"})
InitXla == XcInit /\ OthersIdle({"xc"})
NextXla ==
    \/ \E r \in XcRanks : XcCallUnlaunched(r) /\ XcOnly
    \/ \E r \in XcRanks : XcCallRaises(r) /\ XcOnly
    \/ \E r \in XcRanks : XcCall(r) /\ XcOnly
    \/ XcComplete /\ XcOnly
    \/ \E r \in XcRanks : XcCompleteUnlaunched(r) /\ XcOnly
SpecXla == InitXla /\ [][NextXla]_vars

\* XLAStrategy.reduce on every rank of a launched strategy, with every reduce_op.
InitXlaReduce ==
    XcInitFor({TRUE}, 1..MaxReduceWorld, {"reduce"}, XcReduceOps) /\ OthersIdle({"xc"})
NextXlaReduce ==
    \/ \E r \in XcRanks : XcCallRaises(r) /\ XcOnly
    \/ \E r \in XcRanks : XcCall(r) /\ XcOnly
    \/ XcComplete /\ XcOnly
SpecXlaReduce == InitXlaReduce /\ [][NextXlaReduce]_vars

\* The calls made on one DDPStrategy object.
LcOnly == Only({"lc"})
InitLife == LcInit /\ OthersIdle({"lc"})
NextLife ==
    \/ LcConnect /\ LcOnly
    \/ LcAttachTrainer /\ LcOnly
    \/ LcSetEnviron /\ LcOnly
    \/ \E failing \in SetupSteps \cup {0} : LcSetup(failing) /\ LcOnly
    \/ LcTeardown /\ LcOnly
SpecLife == InitLife /\ [][NextLife]_vars

\* The step methods and reduce of one DDPStrategy, between its setup and teardown.
SpOnly == Only({"lc", "sp"})
InitSteps == LcInit /\ lc_class = "ddp" /\ SpIdle /\ OthersIdle({"lc", "sp"})
NextSteps ==
    \/ LcConnect /\ UNCHANGED sp_vars /\ SpOnly
    \/ LcAttachTrainer /\ UNCHANGED sp_vars /\ SpOnly
    \/ LcSetup(0) /\ UNCHANGED sp_vars /\ SpOnly
    \/ LcTeardown /\ UNCHANGED sp_vars /\ SpOnly
    \/ \E method \in StepMethods : LcStep(method) /\ SpOnly
SpecSteps == InitSteps /\ [][NextSteps]_vars

\* Calls of DDPStrategy.reduce, which reads no field of the strategy.
RdOnly == Only({"sp"})
InitReduce == SpIdle /\ OthersIdle({"sp"})
NextReduce ==
    \/ \E tensor \in SpValues, reduce_op \in SpReduceOps, dist \in BOOLEAN, n \in 1..MaxWorld,
          peers \in 0..MaxPeers : SpReduce(tensor, reduce_op, dist, n, peers) /\ RdOnly
SpecReduce == InitReduce /\ [][NextReduce]_vars

\* One save of a checkpoint mapping.
CkOnly == Only({"ck"})
InitSave == CkInit /\ OthersIdle({"ck"})
NextSave ==
    \/ \E first \in PickleErrors \cup {"none"}, second \in PickleErrors \cup {"none"} :
          CkSaveCheckpoint(first, second) /\ CkOnly
SpecSave == InitSave /\ [][NextSave]_vars


\* The world ranks of every process of a run, num_nodes and rank_zero_only.
WrOnly == Only({"wr"})
InitRanks == WrInit /\ OthersIdle({"wr"})
NextRanks ==
    \/ \E p \in WrProcs : WrSetupDistributed(p) /\ WrOnly
    \/ \E p \in WrProcs, n \in WrNumNodesValues : WrSetNumNodes(p, n) /\ WrOnly
    \/ \E p \in WrProcs : WrLog(p) /\ WrOnly
SpecRanks == InitRanks /\ [][NextRanks]_vars


\* The configuration of one DDPStrategy: find_unused_parameters and the backend.
CfOnly == Only({"cf"})
InitConfig == CfInit /\ OthersIdle({"cf"})
NextConfig ==
    \/ CfPreConfigureDDP /\ CfOnly
    \/ CfSetupDistributed /\ CfOnly
    \/ \E e \in CfBackends \cup {None} : CfSetEnv(e) /\ CfOnly
SpecConfig == InitConfig /\ [][NextConfig]_vars


\* One get on a queue of lightning_app, with a producer and a clock.
QOnly == Only({"q"})
InitQueue == QInit /\ OthersIdle({"q"})
NextQueue ==
    \/ \E timeout \in QTimeouts : QGetCall(timeout) /\ QOnly
    \/ QPut /\ QOnly
    \/ QTick /\ QOnly
    \/ QGetReturn /\ QOnly
SpecQueue == InitQueue /\ [][NextQueue]_vars


\* Iterations over one CombinedStreamingDataset.
CdOnly == Only({"cd"})
InitCombined == CdInit /\ OthersIdle({"cd"})
NextCombined ==
    \/ CdIter /\ CdOnly
    \/ \E i \in CdDatasets : CdNext(i) /\ CdOnly
SpecCombined == InitCombined /\ [][NextCombined]_vars


\* Calls on one TensorRunningAccum.
RaOnly == Only({"ra"})
InitAccum == RaInit /\ OthersIdle({"ra"})
NextAccum ==
    \/ \E x \in RaValues : RaAppend(x) /\ RaOnly
    \/ RaReset /\ RaOnly
SpecAccum == InitAccum /\ [][NextAccum]_vars


\* Calls of scale_batch_size: every search on one trainer, and one search on every
\* trainer.
BsOnly == Only({"bs"})
BsNext ==
    \/ BsStart /\ BsOnly
    \/ BsPowerStep /\ BsOnly
    \/ BsBinaryStep /\ BsOnly
    \/ BsOtherError /\ BsOnly
    \/ BsFinish /\ BsOnly
InitSearch ==
    /\ OthersIdle({"bs"})
    /\ bs_trainer = [fn |-> "fit", fast_dev_run |-> FALSE, loggers |-> <<"tensorboard">>,
                     callbacks |-> <<"early_stopping">>, max_steps |-> -1,
                     limit_val_batches |-> 10, limit_eval_batches |-> 20,
                     has_verbose |-> FALSE, loop_verbose |-> TRUE, loop_state |-> "at_call",
                     restarting |-> FALSE, pbar |-> "enabled"]
    /\ BsInit
SpecSearch == InitSearch /\ [][BsNext]_vars
FairSearch == SpecSearch /\ WF_vars(BsNext)
InitScale ==
    /\ OthersIdle({"bs"})
    /\ bs_T = 2 /\ bs_N = MaxData /\ bs_has_len = TRUE /\ bs_size = 1
    /\ bs_max_trials = MaxTrials /\ bs_init_val \in {1, MaxInitVal}
    /\ BsInit
SpecScale == InitScale /\ [][BsNext]_vars


\* Calls of run_evaluation.
EvOnly == Only({"ev"})
InitEval == EvInit /\ OthersIdle({"ev"})
NextEval ==
    \/ EvBegin /\ EvOnly
    \/ EvStart /\ EvOnly
    \/ EvRun /\ EvOnly
SpecEval == InitEval /\ [][NextEval]_vars


\* Calls of clip_gradients.
CgOnly == Only({"cg"})
InitClip == CgInit /\ OthersIdle({"cg"})
NextClip == CgClip /\ CgOnly
SpecClip == InitClip /\ [][NextClip]_vars


\* Calls of CombinedStreamingDataset.load_state_dict.
LsOnly == Only({"ls"})
InitLoad == LsInit /\ OthersIdle({"ls"})
NextLoad == LsLoadStateDict /\ LsOnly
SpecLoad == InitLoad /\ [][NextLoad]_vars

\* One broadcast through LightningDistributed.
LdOnly == Only({"ld"})
InitDist == LdInit /\ OthersIdle({"ld"})
NextDist ==
    \/ \E r \in LdRanks : LdCallRaises(r) /\ LdOnly
    \/ \E r \in LdRanks : LdCall(r) /\ LdOnly
    \/ LdComplete /\ LdOnly
    \/ LdCompleteAsSources /\ LdOnly
SpecDist == InitDist /\ [][NextDist]_vars

\* _decode(_encode(s)) for one string.
RtOnly == Only({"rt"})
InitCodec == RtInit /\ OthersIdle({"rt"})
NextCodec ==
    \/ RtEncode /\ RtOnly
    \/ RtDecode /\ RtOnly
SpecCodec == InitCodec /\ [][NextCodec]_vars

====
